---- MODULE Spec2Model ----
(***************************************************************************)
(* Model of the slicing / geometry-extraction pipeline of                  *)
(* VTKXDMFDashApp (src/vtk_dash_app.py): the session fields, the Dash      *)
(* callbacks that change them, apply_slicing, the packer and the           *)
(* single-slot geometry cache.                                             *)
(*                                                                         *)
(* Conventions                                                             *)
(*  - Coordinates are integers.  A plane coordinate is kept multiplied by  *)
(*    200 so that centre + position * extent / 100 (single slice) and      *)
(*    position + offset * spacing (multi slice, spacing in tenths) are     *)
(*    exact integers.                                                      *)
(*  - A point of a dataset is a tuple <<a, b, ax, P>>.  <<i, i, 0, 0>> is  *)
(*    point i of the source dataset; <<a, b, ax, P>> is the intersection   *)
(*    of edge (a, b) with the plane "coordinate ax = P / 200".             *)
(*  - id(obj) is an element of 1..MaxId; a new Python object gets any id   *)
(*    that no live object holds (ids of dead objects may be reused).       *)
(*    Ids are only compared for equality, so of the ids that nothing in    *)
(*    the state refers to only the least is tried.                         *)
(*  - The cell loop of the example generator (src/create_example_xdmf.py)  *)
(*    is modelled on its own: variable grid, specification GridSpec.       *)
(*  - Two update_vtk_geometry callbacks running on separate threads of     *)
(*    the development server are modelled statement by statement:          *)
(*    variable req, specification RaceSpec.                                *)
(*  - The WebSocket geometry server (src/vtk_geometry_server.py) is        *)
(*    modelled as handler coroutines that are suspended at their awaits:   *)
(*    variable server, specification ServerSpec.                           *)
(*  - The launcher (src/start_servers.py) and its two child processes:     *)
(*    variable launcher, specification LauncherSpec.                       *)
(***************************************************************************)
EXTENDS Integers, Sequences, FiniteSets, TLC

\* ------------------------------------------------------------------ bounds
MaxId == 3        \* number of distinct object ids
MaxSteps == 4     \* number of callbacks run in one behaviour
MaxLoads == 1     \* number of load attempts in one behaviour
MaxDeepSteps == 6 \* callbacks in one behaviour of the longer, narrower sessions
MaxDeepLoads == 2 \* load attempts in one behaviour of those sessions
MaxPoints == 62000 \* points of the largest volume the generator is run on

\* values the controls are exercised with
OpacityValues  == {100, 50}          \* per cent of the slider range 0..1
PositionValues == {-50, 0, 50}
NormalValues   == {"x", "y", "z"}
NumSliceValues == {2, 5}
SpacingValues  == {10, 20}           \* slider units; slice_spacing = value / 10
UploadFiles    == {"cube", "tri", "vol", "bad"}
CreateButtons  == {"create-volume-btn", "create-extra-large-volume-btn", "create-unstructured-btn"}
LoadButtons    == {"load-large-volume-btn", "load-extra-large-volume-btn", "load-unstructured-btn"}

\* ------------------------------------------------------- generic helpers
\* F applied to the value of v, with v evaluated once.  The operators below
\* use it for every argument and intermediate result they read repeatedly.
Let(v, F(_)) == CHOOSE y \in {F(x) : x \in {v}} : TRUE

RECURSIVE SeqSum(_)
SeqSum(s0) == Let(s0, LAMBDA s : IF s = <<>> THEN 0 ELSE Head(s) + SeqSum(Tail(s)))

RECURSIVE Flatten(_)
Flatten(s0) == Let(s0, LAMBDA ss : IF ss = <<>> THEN <<>> ELSE Head(ss) \o Flatten(Tail(ss)))

Range(s0) == Let(s0, LAMBDA s : {s[i] : i \in 1..Len(s)})

SetMin(S0) == Let(S0, LAMBDA S : CHOOSE x \in S : \A y \in S : x <= y)
SetMax(S0) == Let(S0, LAMBDA S : CHOOSE x \in S : \A y \in S : x >= y)

\* position of the first occurrence of x in s (0 when absent)
IndexOf(s0, x0) ==
  Let({i \in 1..Len(s0) : s0[i] = x0}, LAMBDA at : IF at = {} THEN 0 ELSE SetMin(at))

\* append the elements of xs to s, skipping those already present
RECURSIVE InsertUnique(_, _)
InsertUnique(s0, xs0) ==
  Let(<<s0, xs0>>, LAMBDA p :
    IF p[2] = <<>> THEN p[1]
    ELSE InsertUnique(IF Head(p[2]) \in Range(p[1]) THEN p[1] ELSE Append(p[1], Head(p[2])),
                      Tail(p[2])))

\* ------------------------------------------------------------ the datasets
\* Small stand-ins for the datasets a session can hold.
\*   sphere : the default vtkSphereSource surface (radius 50), as an octahedron
\*   cube   : the 8-point, 6-tetrahedron cube of create_simple_cube_xdmf
\*   tri    : an uploaded one-triangle surface mesh without arrays
\*   vol    : an uploaded structured volume (reader output vtkImageData)
\*   hexvol : large_volume / extra_large_volume (hexahedral cells); n points
\*            per axis with origin -n // 2 and spacing 1 span [-n/2, n/2 - 1]
\*   tets   : large_unstructured (tetrahedral cells)
DatasetNames == {"sphere", "cube", "tri", "vol", "hexvol", "tets"}

Coords(name) ==
  CASE name = "sphere" -> << <<50,0,0>>, <<-50,0,0>>, <<0,50,0>>, <<0,-50,0>>, <<0,0,50>>, <<0,0,-50>> >>
    [] name = "cube"   -> << <<0,0,0>>, <<1,0,0>>, <<1,1,0>>, <<0,1,0>>,
                             <<0,0,1>>, <<1,0,1>>, <<1,1,1>>, <<0,1,1>> >>
    [] name = "tri"    -> << <<0,0,0>>, <<2,0,0>>, <<0,2,0>> >>
    [] name = "vol"    -> << <<0,0,0>>, <<2,0,0>>, <<2,2,0>>, <<0,2,0>>,
                             <<0,0,2>>, <<2,0,2>>, <<2,2,2>>, <<0,2,2>> >>
    [] name = "hexvol" -> << <<-2,-2,-2>>, <<1,-2,-2>>, <<1,1,-2>>, <<-2,1,-2>>,
                             <<-2,-2,1>>, <<1,-2,1>>, <<1,1,1>>, <<-2,1,1>> >>
    [] name = "tets"   -> << <<-4,-4,-4>>, <<4,-4,-4>>, <<-4,4,-4>>, <<-4,-4,4>> >>

\* cells: t is the cell type, ids the 1-based point numbers
Cells(name) ==
  CASE name = "sphere" -> << [t |-> "tri", ids |-> <<1,3,5>>], [t |-> "tri", ids |-> <<3,2,5>>],
                             [t |-> "tri", ids |-> <<2,4,5>>], [t |-> "tri", ids |-> <<4,1,5>>],
                             [t |-> "tri", ids |-> <<3,1,6>>], [t |-> "tri", ids |-> <<2,3,6>>],
                             [t |-> "tri", ids |-> <<4,2,6>>], [t |-> "tri", ids |-> <<1,4,6>>] >>
    [] name = "cube"   -> << [t |-> "tet", ids |-> <<1,2,3,5>>], [t |-> "tet", ids |-> <<3,5,7,2>>],
                             [t |-> "tet", ids |-> <<2,3,7,6>>], [t |-> "tet", ids |-> <<3,4,5,7>>],
                             [t |-> "tet", ids |-> <<4,5,7,8>>], [t |-> "tet", ids |-> <<1,3,4,5>>] >>
    [] name = "tri"    -> << [t |-> "tri", ids |-> <<1,2,3>>] >>
    [] name = "vol"    -> << [t |-> "hex", ids |-> <<1,2,3,4,5,6,7,8>>] >>
    [] name = "hexvol" -> << [t |-> "hex", ids |-> <<1,2,3,4,5,6,7,8>>] >>
    [] name = "tets"   -> << [t |-> "tet", ids |-> <<1,2,3,4>>] >>

\* class of the object load_xdmf_file (or setup_vtk_pipeline) stores
Kind(name) ==
  CASE name = "sphere" -> "PolyData"
    [] name = "vol"    -> "StructuredGrid"
    [] OTHER           -> "UnstructuredGrid"

PointArrays(name) ==
  CASE name = "cube"   -> <<"Temperature">>
    [] name = "vol"    -> <<"Density">>
    [] name = "hexvol" -> <<"Density">>
    [] name = "tets"   -> <<"Temperature">>
    [] OTHER           -> <<>>

CellArrays(name) ==
  CASE name = "cube"   -> <<"Pressure">>
    [] name = "hexvol" -> <<"Average_Density">>
    [] name = "tets"   -> <<"Average_Temperature">>
    [] OTHER           -> <<>>

\* the values of a point array at the points of a dataset, as whole numbers:
\* the cube's temperatures are the generator's; the others stand for the
\* Density and Temperature fields the generator computes
PointValues(name, array) ==
  CASE name = "cube" /\ array = "Temperature"   -> <<20, 25, 30, 22, 80, 85, 90, 75>>
    [] name = "vol" /\ array = "Density"        -> <<-5, -2, 0, 1, 2, 3, 4, 6>>
    [] name = "hexvol" /\ array = "Density"     -> <<-5, -2, 0, 1, 2, 3, 4, 6>>
    [] name = "tets" /\ array = "Temperature"   -> <<-3, 40, 75, 104>>
    [] OTHER                                    -> <<>>

\* GetRange() of a point array: its smallest and largest value; the output
\* of vtkElevationFilter has the filter's scalar range, 0 to 1
ScalarRange(name, array) ==
  IF array = "Elevation" THEN <<0, 1>>
  ELSE <<SetMin(Range(PointValues(name, array))), SetMax(Range(PointValues(name, array)))>>

AxisIndex(normal) == IF normal[1] = 1 THEN 1 ELSE IF normal[2] = 1 THEN 2 ELSE 3

\* GetBounds() along one axis
BoundsLo(name, ax) == SetMin({Coords(name)[i][ax] : i \in 1..Len(Coords(name))})
BoundsHi(name, ax) == SetMax({Coords(name)[i][ax] : i \in 1..Len(Coords(name))})

\* ------------------------------------------------ vtkCutter (library model)
\* Signed side of source point i for the plane "coordinate ax = P / 200":
\* VTK's contouring case tables count a point with distance >= 0 as inside.
IsAbove(name, ax, P, i) == 200 * Coords(name)[i][ax] >= P
IsOnPlane(name, ax, P, i) == 200 * Coords(name)[i][ax] = P

\* intersection point of edge (a, b), a on or above the plane and b below it
EdgePoint(name, ax, P, a, b) ==
  IF IsOnPlane(name, ax, P, a) THEN <<a, a, 0, 0>> ELSE <<a, b, ax, P>>

SourcePoint(i) == <<i, i, 0, 0>>

\* hexahedron corners (positions in the cell) of the face with the larger
\* coordinate along ax, in cyclic order, and the corners facing them
HexHi(ax) == CASE ax = 1 -> <<2,3,7,6>> [] ax = 2 -> <<4,8,7,3>> [] OTHER -> <<5,6,7,8>>
HexLo(ax) == CASE ax = 1 -> <<1,4,8,5>> [] ax = 2 -> <<1,5,6,2>> [] OTHER -> <<1,2,3,4>>

SelectAbove(name, ax, P, ids) == SelectSeq(ids, LAMBDA v : IsAbove(name, ax, P, v))
SelectBelow(name, ax, P, ids) == SelectSeq(ids, LAMBDA v : ~IsAbove(name, ax, P, v))

\* the output primitives (each a sequence of points) one cell contributes:
\* triangles for 3D cells (vtkCutter triangulates its polygons), a line for
\* a 2D cell, nothing when the plane misses the cell
CellCut(name, ax, P, cell) ==
  Let(<<SelectAbove(name, ax, P, cell.ids), SelectBelow(name, ax, P, cell.ids)>>, LAMBDA AB :
  LET A == AB[1]
      B == AB[2]
      E(a, b) == EdgePoint(name, ax, P, a, b)
  IN  IF A = <<>> \/ B = <<>> THEN <<>>
      ELSE CASE cell.t = "tet" /\ Len(A) = 1 ->
                  << <<E(A[1],B[1]), E(A[1],B[2]), E(A[1],B[3])>> >>
             [] cell.t = "tet" /\ Len(A) = 3 ->
                  << <<E(A[1],B[1]), E(A[2],B[1]), E(A[3],B[1])>> >>
             [] cell.t = "tet" /\ Len(A) = 2 ->
                  << <<E(A[1],B[1]), E(A[1],B[2]), E(A[2],B[2])>>,
                     <<E(A[1],B[1]), E(A[2],B[2]), E(A[2],B[1])>> >>
             [] cell.t = "tri" /\ Len(A) = 1 ->
                  << <<E(A[1],B[1]), E(A[1],B[2])>> >>
             [] cell.t = "tri" /\ Len(A) = 2 ->
                  << <<E(A[1],B[1]), E(A[2],B[1])>> >>
             [] cell.t = "hex" ->
                  LET h == [k \in 1..4 |-> cell.ids[HexHi(ax)[k]]]
                      l == [k \in 1..4 |-> cell.ids[HexLo(ax)[k]]]
                  IN  IF Range(A) = Range(h)
                      THEN << <<E(h[1],l[1]), E(h[2],l[2]), E(h[3],l[3])>>,
                              <<E(h[1],l[1]), E(h[3],l[3]), E(h[4],l[4])>> >>
                      ELSE <<>>
             [] OTHER -> <<>>)

\* a primitive whose merged points are not pairwise distinct is dropped
IsDegenerate(prim) == Let(prim, LAMBDA q : Cardinality(Range(q)) < Len(q))

\* the connectivity (0-based point numbers) of primitives over the point list
Connectivity(pts, prims) ==
  [k \in 1..Len(prims) |-> [j \in 1..Len(prims[k]) |-> IndexOf(pts, prims[k][j]) - 1]]

RECURSIVE CutCells(_, _, _, _, _)
CutCells(name, ax, P, cells0, acc0) ==
  Let(<<cells0, acc0>>, LAMBDA ca :
    IF ca[1] = <<>> THEN ca[2]
    ELSE
      Let(CellCut(name, ax, P, Head(ca[1])), LAMBDA prims :
        Let(InsertUnique(ca[2].pts, Flatten(prims)), LAMBDA pts :
          Let(Connectivity(pts, SelectSeq(prims, LAMBDA q : ~IsDegenerate(q))), LAMBDA conn :
            CutCells(name, ax, P, Tail(ca[1]),
                     [pts   |-> pts,
                      polys |-> ca[2].polys \o SelectSeq(conn, LAMBDA c : Len(c) >= 3),
                      lines |-> ca[2].lines \o SelectSeq(conn, LAMBDA c : Len(c) = 2)])))))

EmptyGeom == [pts |-> <<>>, polys |-> <<>>, lines |-> <<>>]

\* cutter.SetInputData(original_data); SetCutFunction(plane); Update(); GetOutput()
Cut(name, ax, P) == CutCells(name, ax, P, Cells(name), EmptyGeom)

\* vtkAppendPolyData: concatenation without point merging
AppendGeom(g0, h0) ==
  Let(<<g0, h0>>, LAMBDA gh :
    LET g == gh[1]
        h == gh[2]
        off == Len(g.pts)
        Shift(cs) == [k \in 1..Len(cs) |-> [j \in 1..Len(cs[k]) |-> cs[k][j] + off]]
    IN  [pts |-> g.pts \o h.pts, polys |-> g.polys \o Shift(h.polys),
         lines |-> g.lines \o Shift(h.lines)])

\* ------------------------------------------- surface extraction (library)
TetFaces == << <<1,2,4>>, <<2,3,4>>, <<3,1,4>>, <<1,3,2>> >>
HexFaces == << <<1,5,8,4>>, <<2,3,7,6>>, <<1,2,6,5>>, <<4,8,7,3>>, <<1,4,3,2>>, <<5,6,7,8>> >>

CellFaces(cell) ==
  LET F == CASE cell.t = "tet" -> TetFaces [] cell.t = "hex" -> HexFaces [] OTHER -> << >>
  IN  IF cell.t = "tri" THEN << cell.ids >>
      ELSE [k \in 1..Len(F) |-> [j \in 1..Len(F[k]) |-> cell.ids[F[k][j]]]]

AllFaces(name) == Flatten([k \in 1..Len(Cells(name)) |-> CellFaces(Cells(name)[k])])

ZeroBased(ids) == [j \in 1..Len(ids) |-> ids[j] - 1]

SourcePoints(name) == [i \in 1..Len(Coords(name)) |-> SourcePoint(i)]

\* vtkDataSetSurfaceFilter: the faces used by exactly one cell (every point
\* of the datasets above lies on the boundary, so the point list is kept)
SurfaceGeom(name) ==
  Let(AllFaces(name), LAMBDA fs :
    Let(SelectSeq(fs, LAMBDA f : Cardinality({k \in 1..Len(fs) : Range(fs[k]) = Range(f)}) = 1),
        LAMBDA bnd :
          [pts   |-> SourcePoints(name),
           polys |-> [k \in 1..Len(bnd) |-> ZeroBased(bnd[k])],
           lines |-> <<>>]))

\* points and polygons of a stored source dataset (GetPoints / GetPolys)
SourceGeom(name) ==
  [pts   |-> SourcePoints(name),
   polys |-> IF Kind(name) = "PolyData"
             THEN [k \in 1..Len(Cells(name)) |-> ZeroBased(Cells(name)[k].ids)]
             ELSE <<>>,
   lines |-> <<>>]

\* ------------------------------------------------------------ slice planes
\* the position taken as a coordinate
SinglePlaneRaw(name, ax, pos) == 200 * pos

\* plane coordinate (times 200) of the single-slice mode: the position is a
\* percentage of the source dataset's extent, measured from its centre
SinglePlane(name, ax, pos) ==
  100 * (BoundsLo(name, ax) + BoundsHi(name, ax)) + 2 * pos * (BoundsHi(name, ax) - BoundsLo(name, ax))

\* the offsets counted from the first plane instead of the middle one
MultiPlaneFromFirst(pos, i, N, spacing) == 200 * pos + 20 * i * spacing

\* plane coordinate (times 200) of slice i of N in multi-slice mode:
\* slice_position + (i - N // 2) * slice_spacing, spacing kept in tenths
MultiPlane(pos, i, N, spacing) == 200 * pos + 20 * (i - (N \div 2)) * spacing

\* The slicing parameters one apply_slicing call works with.  The fields a
\* mode does not read are 0, so that equal keys mean equal cuts.
SliceKey(ax, multi, pos, N, sp) ==
  [ax |-> ax, multi |-> multi, pos |-> pos, N |-> IF multi THEN N ELSE 0, sp |-> IF multi THEN sp ELSE 0]

NoSlice == [ax |-> 0, multi |-> FALSE, pos |-> 0, N |-> 0, sp |-> 0]

\* the planes of one call, in the order they are cut
SlicePlanes(name, k) ==
  IF k.multi
  THEN [i \in 1..k.N |-> MultiPlane(k.pos, i - 1, k.N, k.sp)]
  ELSE << SinglePlane(name, k.ax, k.pos) >>

RECURSIVE AppendAll(_)
AppendAll(gs0) ==
  Let(gs0, LAMBDA gs : IF gs = <<>> THEN EmptyGeom ELSE AppendGeom(Head(gs), AppendAll(Tail(gs))))

\* the cuts of one call: planes lists every plane with the number of points
\* its cut has, geom is the concatenation of the cuts that have points
SliceOf(name, k) ==
  Let(SlicePlanes(name, k), LAMBDA planes :
    Let([i \in 1..Len(planes) |-> Cut(name, k.ax, planes[i])], LAMBDA cuts :
      Let(SelectSeq(cuts, LAMBDA g : Len(g.pts) > 0), LAMBDA added :
        [planes |-> [i \in 1..Len(planes) |->
                       [ax |-> k.ax, P |-> planes[i], npts |-> Len(cuts[i].pts)]],
         slices_added |-> Len(added),
         geom   |-> AppendAll(added)])))

\* the cuts of every key a call can have, computed once per dataset.  A single
\* slice has N = 0 and sp = 0; N = 5 and sp = 2 (0.2) are the values the
\* constructor gives num_slices and slice_spacing.
SliceTable ==
  [name \in DatasetNames |-> [ax \in 1..3 |-> [pos \in PositionValues |->
     [N \in NumSliceValues \cup {0, 5} |-> [sp \in SpacingValues \cup {0, 2} |->
        IF (N = 0) = (sp = 0) THEN SliceOf(name, [ax |-> ax, multi |-> N # 0, pos |-> pos, N |-> N, sp |-> sp])
        ELSE <<>>]]]]]
Slice(name, k) == SliceTable[name][k.ax][k.pos][k.N][k.sp]

\* ------------------------------------------------------------- the packer
\* fan triangulation of one cell, as the loop over range(1, n - 1) does it
RECURSIVE Fan(_, _)
Fan(ids, i) ==
  IF i > Len(ids) - 2 THEN <<>>
  ELSE <<ids[1], ids[i + 1], ids[i + 2]>> \o Fan(ids, i + 1)

FanCell(ids0) == Let(ids0, LAMBDA ids : IF Len(ids) >= 3 THEN Fan(ids, 1) ELSE <<>>)

RECURSIVE Triangulate(_)
Triangulate(polys0) ==
  Let(polys0, LAMBDA polys :
    IF polys = <<>> THEN <<>> ELSE FanCell(Head(polys)) \o Triangulate(Tail(polys)))

\* "Creating a simple triangle to make something visible"
PackFaces(polys, num_points) ==
  Let(Triangulate(polys), LAMBDA faces :
    IF Len(faces) = 0 THEN (IF num_points > 0 THEN <<0, 1, 2>> ELSE faces) ELSE faces)

PackVertices(pts0) ==
  Let(pts0, LAMBDA pts :
    Flatten([i \in 1..Len(pts) |-> << <<pts[i], 1>>, <<pts[i], 2>>, <<pts[i], 3>> >>]))

\* one colour component is <<source, point number, component>>; the default
\* green [0.0, 1.0, 0.0] has source "Default" and carries its value
DefaultColor == << <<"Default", 0, 0>>, <<"Default", 0, 1>>, <<"Default", 0, 0>> >>

\* every point looked up in the table, whether or not there are scalars
PackColorsMapped(scalars, num_points) ==
  Flatten([i \in 1..num_points |-> << <<scalars, i, 1>>, <<scalars, i, 2>>, <<scalars, i, 3>> >>])

\* the default colour written once instead of once per point
PackColorsOnce(scalars, num_points) ==
  IF scalars # "none"
  THEN Flatten([i \in 1..num_points |-> << <<scalars, i, 1>>, <<scalars, i, 2>>, <<scalars, i, 3>> >>])
  ELSE DefaultColor

PackColors(scalars, num_points) ==
  IF scalars # "none"
  THEN Flatten([i \in 1..num_points |-> << <<scalars, i, 1>>, <<scalars, i, 2>>, <<scalars, i, 3>> >>])
  ELSE Flatten([i \in 1..num_points |-> DefaultColor])

EmptyResult == [tag |-> "empty"]
ErrorResult == [tag |-> "error"]
NoResult    == [tag |-> "none"]

\* the object handed to the packer: the surface of a dataset, or a dataset
\* itself (slice # NoSlice: the output of that slicing call), with its
\* active point-scalar array
PolyGeom(pd) ==
  IF pd.form = "surface" THEN SurfaceGeom(pd.name)
  ELSE IF pd.slice = NoSlice THEN SourceGeom(pd.name)
  ELSE Slice(pd.name, pd.slice).geom

\* the arrays of the returned dict
PackArrays(pd) ==
  Let(PolyGeom(pd), LAMBDA geom :
    Let(PackFaces(geom.polys, Len(geom.pts)), LAMBDA faces :
      [vertices     |-> PackVertices(geom.pts),
       faces        |-> faces,
       colors       |-> PackColors(pd.scalars, Len(geom.pts)),
       vertex_count |-> Len(geom.pts),
       face_count   |-> Len(faces) \div 3]))

ScalarNames == {"none", "Elevation"} \cup UNION {Range(PointArrays(n)) : n \in DatasetNames}

\* the arrays of every object the packer can be handed, computed once
PackTable ==
  [form \in {"surface", "self"} |-> [name \in DatasetNames |-> [scalars \in ScalarNames |->
     [ax \in 0..3 |-> [pos \in PositionValues |->
        [N \in NumSliceValues \cup {0, 5} |-> [sp \in SpacingValues \cup {0, 2} |->
           IF (N = 0) = (sp = 0) /\ (ax = 0 => N = 0 /\ pos = 0) /\ (form = "surface" => ax = 0)
           THEN PackArrays([form |-> form, name |-> name, scalars |-> scalars,
                            slice |-> [ax |-> ax, multi |-> N # 0, pos |-> pos, N |-> N, sp |-> sp]])
           ELSE <<>>]]]]]]]
Packed(pd) == PackTable[pd.form][pd.name][pd.scalars][pd.slice.ax][pd.slice.pos][pd.slice.N][pd.slice.sp]

\* GetPoints().GetNumberOfPoints() of the object handed to the packer
NumberOfPoints(pd) == Packed(pd).vertex_count

\* A returned geometry (and the cache entry) is kept as the object that was
\* packed and the two echoed flags; GeometryData is the dict itself.
GeometryData(r) ==
  Let(Packed(r.polydata), LAMBDA a :
    [vertices |-> a.vertices, faces |-> a.faces, colors |-> a.colors,
     vertex_count |-> a.vertex_count, face_count |-> a.face_count,
     opacity |-> r.opacity, wireframe |-> r.wireframe])

\* the polygons (with 3 or more ids each) of the object that was packed
PackedPolys(r) == PolyGeom(r.polydata).polys

\* two returned values are the same dict
SameResult(r1, r2) ==
  /\ r1.tag = r2.tag
  /\ r1.tag = "geometry" => r1 = r2 \/ GeometryData(r1) = GeometryData(r2)

\* ---------------------------------------------------------- session state
VARIABLES
  app,      \* the fields of the VTKXDMFDashApp instance
  ui,       \* the values of the dashboard controls in the browser
  pending,  \* control updates written by other callbacks, not yet delivered
  steps,    \* number of callbacks run so far (bounded by MaxSteps)
  loads,    \* number of load attempts so far (bounded by MaxLoads)
  obs,      \* what the last callback did (observation only, never read by it)
  grid,     \* the structured volume the example generator works on
  req,      \* the update_vtk_geometry callbacks in flight on server threads
  server,   \* the WebSocket geometry server and its client handlers
  launcher  \* the launcher, its two child processes and its position in run

vars == <<app, ui, pending, steps, loads, obs, grid, req, server, launcher>>

\* An entry of available_arrays / a value of the array dropdown is the string
\* prefix + name with prefix "Point: " or "Cell: "; it is kept as the pair
\* <<prefix, name>>.  "Elevation" has no prefix; None is NoArray.
NoArray == <<"", "">>
ElevationArray == <<"", "Elevation">>
PointLabel(name) == <<"Point: ", name>>
CellLabel(name) == <<"Cell: ", name>>

\* a Python object: id, what produced it, the dataset it derives from, its
\* class, the slicing call that produced it, its point arrays and its
\* active point scalars
SourceObject(name, id) ==
  [id |-> id, role |-> "orig", name |-> name, kind |-> Kind(name),
   slice |-> NoSlice, arrays |-> Range(PointArrays(name)), active |-> "none"]

\* lut = vtk.vtkLookupTable(); lut.SetHueRange(0.667, 0.0); lut.Build(): the
\* hue range in thousandths, and the table range a new table has (0 to 1),
\* which neither call changes
NewLookupTable == [hue_range |-> <<667, 0>>, table_range |-> <<0, 1>>]

InitApp ==
  [vtk_data           |-> SourceObject("sphere", 1),
   original_data      |-> SourceObject("sphere", 1),
   current_opacity    |-> 100,
   wireframe_mode     |-> FALSE,
   uploaded_file_path |-> "none",
   available_arrays   |-> <<>>,
   current_array      |-> NoArray,
   slicing_enabled    |-> FALSE,
   slice_position     |-> 0,
   slice_normal       |-> <<1, 0, 0>>,
   multiple_slices    |-> FALSE,
   num_slices         |-> 5,
   slice_spacing      |-> 2,
   geometry_cache_hash   |-> <<>>,
   cached_geometry_data  |-> NoResult,
   lookup_table          |-> NewLookupTable]

InitUi ==
  [opacity |-> 100, wireframe |-> FALSE, array |-> NoArray, slicing_enabled |-> FALSE,
   slice_position |-> 0, slice_normal |-> "x", multiple_slices |-> FALSE,
   num_slices |-> 5, slice_spacing |-> 10, array_options |-> <<>>]

\* the id in a fingerprint
HashIds(h) == IF h = <<>> THEN {} ELSE {h[1]}

\* the ids the current state still refers to: those of the two objects the
\* session holds, the one in the cached fingerprint and those the observation
\* of the last callback keeps
KnownIds ==
  {app.vtk_data.id, app.original_data.id} \cup HashIds(app.geometry_cache_hash)
    \cup {obs.packed} \cup obs.cut_input
    \cup HashIds(obs.fingerprint) \cup HashIds(obs.prev_fingerprint)

\* The ids of S a new object is given.  Ids are only compared for equality,
\* so the ids of S that nothing refers to are interchangeable: the least of
\* them stands for all of them.
NewIds(S) ==
  (S \cap KnownIds) \cup (IF S \ KnownIds = {} THEN {} ELSE {SetMin(S \ KnownIds)})

\* ids a newly created Python object can get: any id no live object holds
FreshIds(s) == NewIds((1..MaxId) \ {s.vtk_data.id, s.original_data.id})

\* assignment through the vtk_data reference: the source object is the same
\* Python object when vtk_data still refers to it
SetActive(s, name) ==
  [s EXCEPT !.vtk_data.active = name,
            !.original_data.active =
                IF s.vtk_data.id = s.original_data.id THEN name ELSE s.original_data.active]

\* ------------------------------------------------------------ apply_slicing
\* the object a cutter or append filter hands back
DerivedObject(s, id, role, k) ==
  [id |-> id, role |-> role, name |-> s.original_data.name, kind |-> "PolyData",
   slice |-> k, arrays |-> s.original_data.arrays, active |-> s.original_data.active]

\* the assignment the other way round: the source is overwritten
RestoreSwapped(s) == [s EXCEPT !.original_data = s.vtk_data]

\* self.vtk_data = self.original_data
Restore(s) == [s EXCEPT !.vtk_data = s.original_data]

\* Result: s the session afterwards; valid whether nid is an id the new
\* output object can get (fresh: whether a new object was made); planes,
\* fallback and cut_input describe the call.
ApplySlicing(s, nid) ==
  LET k    == SliceKey(AxisIndex(s.slice_normal), s.multiple_slices, s.slice_position,
                       s.num_slices, s.slice_spacing)
      c    == Slice(s.original_data.name, k)
      back == [s |-> Restore(s), valid |-> TRUE, fresh |-> FALSE,
               planes |-> c.planes, fallback |-> TRUE, cut_input |-> {s.original_data.id}]
  IN  IF ~s.slicing_enabled
      THEN [back EXCEPT !.planes = <<>>, !.fallback = FALSE, !.cut_input = {}]
      ELSE IF s.multiple_slices
      THEN IF c.slices_added > 0
           THEN [s |-> [s EXCEPT !.vtk_data = DerivedObject(s, nid, "append", k)],
                 valid |-> nid \in FreshIds(s), fresh |-> TRUE,
                 planes |-> c.planes, fallback |-> FALSE, cut_input |-> {s.original_data.id}]
           ELSE back
      ELSE IF c.planes[1].npts > 0
           THEN LET keep == s.vtk_data.role = "cut"
                    id   == IF keep THEN s.vtk_data.id ELSE nid
                IN  [s |-> [s EXCEPT !.vtk_data = DerivedObject(s, id, "cut", k)],
                     valid |-> keep \/ nid \in FreshIds(s), fresh |-> ~keep,
                     planes |-> c.planes, fallback |-> FALSE, cut_input |-> {s.original_data.id}]
           ELSE back

\* ------------------------------------------------------ colouring helpers
ApplyArrayColoring(s, array_selection) ==
  IF array_selection = NoArray THEN s
  ELSE LET name == array_selection[2]
           s1   == IF array_selection[1] = "Point: " /\ name \in s.vtk_data.arrays
                   THEN SetActive(s, name) ELSE s
       IN  [s1 EXCEPT !.lookup_table = NewLookupTable, !.current_array = array_selection]

\* vtk_data becomes a new object carrying the extra point array "Elevation"
ApplyElevationFilter(s, eid) ==
  [s EXCEPT !.vtk_data = [s.vtk_data EXCEPT !.id = eid, !.role = "elev",
                                            !.arrays = s.vtk_data.arrays \cup {"Elevation"},
                                            !.active = "Elevation"],
            !.current_array = ElevationArray]

\* ----------------------------------------------------------- load_xdmf_file
\* what the reader finds behind a path; "bad" cannot be read or has no points
Readable(file) == file \in DatasetNames \ {"sphere"}

AvailableArrays(name) ==
  [k \in 1..Len(PointArrays(name)) |-> PointLabel(PointArrays(name)[k])] \o
  [k \in 1..Len(CellArrays(name)) |-> CellLabel(CellArrays(name)[k])]

\* the ids the objects of a load can get: oid for the reader's output, eid
\* for the elevation filter's output when the file has no arrays
LoadIds(s, file) ==
  IF ~Readable(file) THEN {<<1, 1>>}
  ELSE IF Len(AvailableArrays(file)) > 0 THEN {<<oid, 1>> : oid \in FreshIds(s)}
  ELSE UNION {{<<oid, eid>> : eid \in NewIds((1..MaxId) \ {oid})} : oid \in FreshIds(s)}

\* the path stored before the reader's output is examined
LoadXdmfFileEager(s, file, oid, eid) ==
  IF ~Readable(file)
  THEN [s |-> [s EXCEPT !.uploaded_file_path = file], success |-> FALSE]
  ELSE LET output == SourceObject(file, oid)
       IN  Let([s EXCEPT !.original_data = output, !.vtk_data = output,
                         !.uploaded_file_path = file,
                         !.available_arrays = AvailableArrays(file)], LAMBDA s1 :
             IF Len(s1.available_arrays) > 0
             THEN [s |-> ApplyArrayColoring([s1 EXCEPT !.current_array = s1.available_arrays[1]],
                                            s1.available_arrays[1]),
                   success |-> TRUE]
             ELSE [s |-> ApplyElevationFilter(s1, eid), success |-> TRUE])

\* Result: s the session afterwards, success the return value
LoadXdmfFile(s, file, oid, eid) ==
  IF ~Readable(file)
  THEN [s |-> s, success |-> FALSE]
  ELSE LET output == SourceObject(file, oid)
       IN  Let([s EXCEPT !.original_data = output, !.vtk_data = output,
                         !.uploaded_file_path = file,
                         !.available_arrays = AvailableArrays(file)], LAMBDA s1 :
             IF Len(s1.available_arrays) > 0
             THEN [s |-> ApplyArrayColoring([s1 EXCEPT !.current_array = s1.available_arrays[1]],
                                            s1.available_arrays[1]),
                   success |-> TRUE]
             ELSE [s |-> ApplyElevationFilter(s1, eid), success |-> TRUE])

\* --------------------------------------------------------- load_large_dataset
\* the file behind each dataset type; "missing" when the .xdmf / .h5 pair is
\* not on disk
LargeFile(dataset_type) ==
  CASE dataset_type = "volume" -> "hexvol"
    [] dataset_type = "extra_large_volume" -> "hexvol"
    [] dataset_type = "unstructured" -> "tets"

LoadLargeDataset(s, dataset_type, exists, oid, eid) ==
  IF ~exists THEN [s |-> s, success |-> FALSE]
  ELSE Let(LoadXdmfFile(s, LargeFile(dataset_type), oid, eid), LAMBDA r :
         IF r.success
         THEN [s |-> [r.s EXCEPT !.slicing_enabled = TRUE, !.slice_normal = <<1, 0, 0>>,
                                 !.slice_position = 0],
               success |-> TRUE]
         ELSE [s |-> r.s, success |-> FALSE])

\* ------------------------------------------------------ extract_geometry_data
\* the tuple without the opacity
FingerprintNoOpacity(s) ==
  <<s.vtk_data.id, s.wireframe_mode, s.current_array, s.slicing_enabled,
    s.slice_position, s.slice_normal, s.multiple_slices, s.num_slices>>

\* current_hash: hash() of the tuple, taken as the tuple itself
Fingerprint(s) ==
  <<s.vtk_data.id, s.current_opacity, s.wireframe_mode, s.current_array, s.slicing_enabled,
    s.slice_position, s.slice_normal, s.multiple_slices, s.num_slices>>

\* the type dispatch: the object handed to the packer.  poly tells whether
\* that object has GetPolys(); scalars is its active point-scalar array.
Polydata(s) ==
  LET d == s.vtk_data
  IN  IF d.kind = "UnstructuredGrid"
      THEN [form |-> "surface", name |-> d.name, slice |-> NoSlice, scalars |-> d.active, poly |-> TRUE]
      ELSE IF s.uploaded_file_path = "none" /\ s.current_array = ElevationArray
      THEN [form |-> "self", name |-> d.name, slice |-> d.slice, scalars |-> "Elevation",
            poly |-> d.kind = "PolyData"]
      ELSE [form |-> "self", name |-> d.name, slice |-> d.slice, scalars |-> d.active,
            poly |-> d.kind = "PolyData"]

PackGeometry(s, polydata) ==
  [tag       |-> "geometry",
   polydata  |-> [form |-> polydata.form, name |-> polydata.name, slice |-> polydata.slice,
                  scalars |-> polydata.scalars],
   opacity   |-> s.current_opacity,
   wireframe |-> s.wireframe_mode]

\* the slot written only while it is still empty
StoreCacheOnce(s, geometry_data, current_hash) ==
  IF s.geometry_cache_hash = <<>>
  THEN [s EXCEPT !.cached_geometry_data = geometry_data, !.geometry_cache_hash = current_hash]
  ELSE s

\* self._cached_geometry_data = geometry_data; self._geometry_cache_hash = current_hash
StoreCache(s, geometry_data, current_hash) ==
  [s EXCEPT !.cached_geometry_data = geometry_data, !.geometry_cache_hash = current_hash]

\* Result: s the session afterwards, result the returned value (ErrorResult
\* when the call raises), hit whether the cache answered, and the
\* description of the apply_slicing call that was made, if any.
ExtractGeometryData(s, nid) ==
  LET current_hash == Fingerprint(s)
  IN  IF s.geometry_cache_hash = current_hash
      THEN [s |-> s, result |-> s.cached_geometry_data, hit |-> TRUE, valid |-> TRUE,
            fresh |-> FALSE, planes |-> <<>>, fallback |-> FALSE, cut_input |-> {},
            packed |-> 0]
      ELSE
        Let(ApplySlicing(s, nid), LAMBDA a :
          Let(Polydata(a.s), LAMBDA polydata :
            LET out == [s |-> a.s, result |-> EmptyResult, hit |-> FALSE, valid |-> a.valid,
                        fresh |-> a.fresh, planes |-> a.planes, fallback |-> a.fallback,
                        cut_input |-> a.cut_input, packed |-> a.s.vtk_data.id]
            IN  IF NumberOfPoints(polydata) = 0 THEN out
                ELSE IF ~polydata.poly THEN [out EXCEPT !.result = ErrorResult]
                ELSE Let(PackGeometry(a.s, polydata), LAMBDA geometry_data :
                       [out EXCEPT !.result = geometry_data,
                                   !.s = StoreCache(a.s, geometry_data, current_hash)])))

\* -------------------------------------------------------- update_vtk_geometry
NormalVector(slice_normal) ==
  IF slice_normal = "x" THEN <<1, 0, 0>> ELSE IF slice_normal = "y" THEN <<0, 1, 0>> ELSE <<0, 0, 1>>

DatasetType(button) ==
  CASE button \in {"create-volume-btn", "load-large-volume-btn"} -> "volume"
    [] button \in {"create-extra-large-volume-btn", "load-extra-large-volume-btn"} -> "extra_large_volume"
    [] OTHER -> "unstructured"

\* the slicing fields are copied from the controls unless nothing or one of
\* the create buttons triggered the callback
CopySlicingParameters(s, trigger, u) ==
  IF trigger # "none" /\ trigger \notin CreateButtons
  THEN [s EXCEPT !.slicing_enabled = u.slicing_enabled,
                 !.slice_position  = u.slice_position,
                 !.multiple_slices = u.multiple_slices,
                 !.num_slices      = u.num_slices,
                 !.slice_spacing   = u.slice_spacing,
                 !.slice_normal    = NormalVector(u.slice_normal)]
  ELSE s

\* Result as for ExtractGeometryData, plus loaded (whether a dataset was
\* loaded) and before (the session when extract_geometry_data was entered)
UpdateVtkGeometry(s, trigger, u, exists, oid, eid, nid) ==
  LET s1 == [s EXCEPT !.current_opacity = u.opacity, !.wireframe_mode = u.wireframe]
      Colour(s2) == IF u.array # NoArray /\ u.array # s2.current_array
                    THEN ApplyArrayColoring(s2, u.array) ELSE s2
      Load(s3) == IF trigger \in CreateButtons
                  THEN LoadLargeDataset(s3, DatasetType(trigger), exists, oid, eid)
                  ELSE [s |-> s3, success |-> FALSE]
  IN  Let(CopySlicingParameters(s1, trigger, u), LAMBDA s2 :
        Let(Load(Colour(s2)), LAMBDA l :
          Let(ExtractGeometryData(l.s, nid), LAMBDA e :
            [s |-> e.s, result |-> e.result, hit |-> e.hit, valid |-> e.valid, fresh |-> e.fresh,
             planes |-> e.planes, fallback |-> e.fallback, cut_input |-> e.cut_input,
             packed |-> e.packed, loaded |-> l.success, before |-> l.s])))

\* ------------------------------------------------------------- observation
\* every input that affects the geometry a request should produce
FullParams(s) ==
  <<s.original_data.name, s.current_array, s.slicing_enabled, s.slice_position, s.slice_normal,
    s.multiple_slices, s.num_slices, s.slice_spacing, s.current_opacity, s.wireframe_mode>>

\* the slicing parameters apply_slicing reads in session s
CurrentKey(s) ==
  SliceKey(AxisIndex(s.slice_normal), s.multiple_slices, s.slice_position, s.num_slices,
           s.slice_spacing)

InitObs ==
  [op |-> "init", trigger |-> "none", hit |-> FALSE, repeat |-> FALSE, same_result |-> FALSE,
   result |-> NoResult, params |-> <<>>, cache_params |-> <<>>, planes |-> <<>>,
   cut_input |-> {}, packed |-> 0, fallback |-> FALSE,
   sliced |-> FALSE, multi |-> FALSE, original_kept |-> TRUE, loaded |-> FALSE,
   source |-> "sphere", key |-> NoSlice, restored |-> FALSE,
   fingerprint |-> <<>>, prev_fingerprint |-> <<>>, stored |-> FALSE, aba |-> FALSE]

\* the value a request in session s returns when slicing is disabled and
\* nothing is cached
DisabledResult(s) ==
  ExtractGeometryData([s EXCEPT !.slicing_enabled = FALSE, !.geometry_cache_hash = <<>>], 1).result

\* r: the result of UpdateVtkGeometry; o: the previous observation.
\* prev_fingerprint (the fingerprint of the request before) is kept for a
\* request that the opacity slider triggered and that filled the slot; aba
\* tells that this request is the third of a sequence A, B, A of requests.
Observe(o, r, trigger) ==
  [op            |-> "request",
   trigger       |-> trigger,
   hit           |-> r.hit,
   repeat        |-> /\ o.op = "request" /\ o.result.tag = "geometry"
                     /\ ~r.loaded /\ FullParams(r.before) = o.params,
   same_result   |-> SameResult(r.result, o.result),
   result        |-> r.result,
   params        |-> FullParams(r.before),
   cache_params  |-> IF ~r.hit /\ r.result.tag = "geometry"
                     THEN FullParams(r.before) ELSE o.cache_params,
   planes        |-> r.planes,
   cut_input     |-> r.cut_input,
   packed        |-> r.packed,
   fallback      |-> r.fallback,
   sliced        |-> r.before.slicing_enabled,
   multi         |-> r.before.multiple_slices,
   original_kept |-> r.s.original_data = r.before.original_data,
   loaded        |-> r.loaded,
   source        |-> r.before.original_data.name,
   key           |-> CurrentKey(r.before),
   restored      |-> /\ ~r.hit /\ r.before.vtk_data.id # r.before.original_data.id
                     /\ r.s.vtk_data = r.s.original_data,
   fingerprint   |-> Fingerprint(r.before),
   prev_fingerprint |-> IF trigger = "opacity" /\ ~r.hit /\ r.result.tag = "geometry"
                        THEN o.fingerprint ELSE <<>>,
   stored        |-> ~r.hit /\ r.result.tag = "geometry",
   aba           |-> /\ o.op = "request" /\ o.stored /\ o.fingerprint # Fingerprint(r.before)
                     /\ o.prev_fingerprint = Fingerprint(r.before)]

ObserveLoad(o, op, success) ==
  [o EXCEPT !.op = op, !.trigger = "none", !.hit = FALSE, !.repeat = FALSE, !.planes = <<>>,
            !.cut_input = {}, !.packed = 0, !.fallback = FALSE,
            !.sliced = FALSE, !.multi = FALSE, !.original_kept = TRUE, !.loaded = success,
            !.same_result = FALSE, !.restored = FALSE, !.aba = FALSE]

\* ------------------------------------------- the example generator's cells
\* create_large_volume_dataset / create_extra_large_volume_dataset build the
\* hexahedral cells of the XDMF file of a volume of size = (nx, ny, nz) points.
StrideDivisor == 20

\* stride = max(1, min(nx, ny, nz) // 20)
Stride(size) == SetMax({1, SetMin({size[1], size[2], size[3]}) \div StrideDivisor})

\* range(0, n, stride): the loop run to the last point
StridedRangeFull(n, stride) == {x \in 0..(n - 1) : x % stride = 0}

\* range(0, n - stride, stride)
StridedRange(n, stride) == {x \in 0..(n - stride - 1) : x % stride = 0}

\* the corner indices of the block at (i, j, k)
Corners(size, stride, i, j, k) ==
  LET nx == size[1]
      ny == size[2]
  IN  {k*nx*ny + j*nx + i, k*nx*ny + j*nx + (i+stride),
       k*nx*ny + (j+stride)*nx + (i+stride), k*nx*ny + (j+stride)*nx + i,
       (k+stride)*nx*ny + j*nx + i, (k+stride)*nx*ny + j*nx + (i+stride),
       (k+stride)*nx*ny + (j+stride)*nx + (i+stride), (k+stride)*nx*ny + (j+stride)*nx + i}

\* the row appended for the block at (i, j, k):
\* [idx000, idx100, idx110, idx010, idx001, idx101, idx111, idx011]
Hexahedron(size, stride, i, j, k) ==
  LET nx == size[1]
      ny == size[2]
  IN  <<k*nx*ny + j*nx + i, k*nx*ny + j*nx + (i+stride),
        k*nx*ny + (j+stride)*nx + (i+stride), k*nx*ny + (j+stride)*nx + i,
        (k+stride)*nx*ny + j*nx + i, (k+stride)*nx*ny + j*nx + (i+stride),
        (k+stride)*nx*ny + (j+stride)*nx + (i+stride), (k+stride)*nx*ny + (j+stride)*nx + i>>

\* the loop iterations <<k, j, i>> that append a row: those whose corners
\* are all below len(scalars) = nx * ny * nz
Blocks(size) ==
  Let(Stride(size), LAMBDA stride :
    Let(size[1] * size[2] * size[3], LAMBDA num_points :
      {c \in StridedRange(size[3], stride) \X StridedRange(size[2], stride)
                \X StridedRange(size[1], stride) :
         \A idx \in Corners(size, stride, c[3], c[2], c[1]) : idx < num_points}))

\* len(connectivity)
ConnectivityCount(size) == Cardinality(Blocks(size))

\* the generator's default size, nothing built yet
InitGrid == [size |-> <<100, 100, 100>>, built |-> FALSE, stride |-> 0, cells |-> 0]

\* ------------------------------------------------------------------ actions
\* ------------------------------------------------ callbacks on server threads
\* The development server that app.run starts handles each HTTP request on a
\* thread of its own; the callbacks share the one VTKXDMFDashApp instance.
\* Request "later" arrives when the two overlapping ones have returned.
Requests == {"first", "second", "later"}

\* a thread's position in update_vtk_geometry, the control values it was
\* called with, and its local variables current_hash and geometry_data
IdleRequest ==
  [pc |-> "idle", u |-> InitUi, current_hash |-> <<>>, geometry_data |-> NoResult,
   response |-> NoResult, hit |-> FALSE]

InitReq == [q \in Requests |-> IdleRequest]

\* ------------------------------------------- the WebSocket geometry server
\* (src/vtk_geometry_server.py)  One asyncio event loop runs a handler
\* coroutine per websocket; a handler is suspended only at an await (the
\* initial send, the wait for the next message, each send of a broadcast),
\* and an action is what a coroutine does from one await to the next.
Sockets == {"ws1", "ws2"}

\* a decoded JSON value: a number (opacity in per cent), a string, a
\* boolean or null
Num(n) == [t |-> "num", n |-> n, s |-> "", b |-> FALSE]
Str(s) == [t |-> "str", n |-> 0, s |-> s, b |-> FALSE]
Bool(b) == [t |-> "bool", n |-> 0, s |-> "", b |-> b]
Null == [t |-> "null", n |-> 0, s |-> "", b |-> FALSE]

\* float(value): ok tells whether the call returns
ToFloat(v) ==
  CASE v.t = "num"  -> [ok |-> TRUE, x |-> v.n]
    [] v.t = "bool" -> [ok |-> TRUE, x |-> IF v.b THEN 100 ELSE 0]
    [] OTHER        -> [ok |-> FALSE, x |-> 0]

\* bool(value)
ToBool(v) ==
  CASE v.t = "num"  -> v.n # 0
    [] v.t = "bool" -> v.b
    [] v.t = "str"  -> v.s # ""
    [] OTHER        -> FALSE

\* str(value)
ToStr(v) ==
  CASE v.t = "str"  -> v.s
    [] v.t = "bool" -> IF v.b THEN "True" ELSE "False"
    [] v.t = "null" -> "None"
    [] OTHER        -> "number"

\* a text frame: json says what json.loads makes of it ("object", another
\* JSON value, or "invalid" when it is not JSON); type, control_type and
\* value are the object's entries
Frame(json, type, control_type, value) ==
  [json |-> json, type |-> type, control_type |-> control_type, value |-> value]

Frames ==
  {Frame("object", "control", "opacity", Num(50)),
   Frame("object", "control", "opacity", Str("abc")),
   Frame("object", "control", "wireframe", Bool(TRUE)),
   Frame("object", "control", "colormap", Str("rainbow")),
   Frame("object", "ping", "", Null),
   Frame("array", "", "", Null),
   Frame("invalid", "", "", Null)}

NoSocket == "none"
NoGeometry == [tag |-> "none", opacity |-> 0, wireframe |-> FALSE]

\* a handler coroutine: where it is suspended, whether its connection is
\* open, whether the initial geometry reached its client, why it ended,
\* and the locals of the broadcast it is running: the message, the set
\* iterator (the set's size and members when the loop began, the members
\* visited, the one being sent to), disconnected, and the clients reached
NoHandler ==
  [pc |-> "absent", open |-> FALSE, greeted |-> FALSE, ended_by |-> "none",
   message |-> NoGeometry, size |-> 0, domain |-> {}, visited |-> {}, cur |-> NoSocket,
   disconnected |-> {}, got |-> {}]

\* has_polys: whether polydata.GetPolys() exists on the elevation filter's
\* output.  setup_vtk_pipeline makes vtk_data a vtkUnstructuredGrid (the
\* output of vtkAppendFilter), whose class has no GetPolys; the class of the
\* filter outputs is decided inside VTK, so both outcomes are kept.
InitServer ==
  [clients          |-> {},
   current_opacity  |-> 100,
   wireframe_mode   |-> FALSE,
   current_colormap |-> "elevation",
   has_polys        |-> FALSE,
   h                |-> [w \in Sockets |-> NoHandler]]

\* extract_geometry_data: the dict, of which the two echoed flags are kept
ServerGeometry(sv) ==
  [tag |-> "geometry", opacity |-> sv.current_opacity, wireframe |-> sv.wireframe_mode]

\* self.clients.discard(websocket) with nothing discarded
DiscardNothing(clients, w) == clients

\* self.clients.discard(websocket)
Discard(clients, w) == clients \ {w}

\* the locals of a broadcast are gone when the call returns or raises
NoBroadcast(handler) ==
  [handler EXCEPT !.message = NoGeometry, !.size = 0, !.domain = {}, !.visited = {},
                  !.cur = NoSocket, !.disconnected = {}, !.got = {}]

\* the handler of w leaves through its finally clause, and the library
\* closes the connection
EndOfHandler(sv, w, why) ==
  [sv EXCEPT !.clients = Discard(sv.clients, w),
             !.h[w] = [NoBroadcast(sv.h[w]) EXCEPT !.pc = "ended", !.ended_by = why,
                                                   !.open = FALSE]]

\* the body of handle_control_message before the broadcast; ok is FALSE
\* when float(value) raises
ApplyControl(sv, control_type, value) ==
  CASE control_type = "opacity" ->
         IF ToFloat(value).ok
         THEN [ok |-> TRUE, sv |-> [sv EXCEPT !.current_opacity = ToFloat(value).x]]
         ELSE [ok |-> FALSE, sv |-> sv]
    [] control_type = "wireframe" ->
         [ok |-> TRUE, sv |-> [sv EXCEPT !.wireframe_mode = ToBool(value)]]
    [] control_type = "colormap" ->
         [ok |-> TRUE, sv |-> [sv EXCEPT !.current_colormap = ToStr(value)]]
    [] OTHER -> [ok |-> TRUE, sv |-> sv]

\* broadcast_geometry_data up to its first awaited send: first is the
\* member the set iterator yields first
StartBroadcast(sv, w, first) ==
  IF first \notin sv.clients THEN sv
  ELSE IF ~sv.has_polys THEN EndOfHandler(sv, w, "AttributeError")
  ELSE [sv EXCEPT !.h[w].pc = "sending", !.h[w].message = ServerGeometry(sv),
                  !.h[w].size = Cardinality(sv.clients), !.h[w].domain = sv.clients,
                  !.h[w].visited = {first}, !.h[w].cur = first,
                  !.h[w].disconnected = {}, !.h[w].got = {}]

ServerUnchanged == UNCHANGED <<app, ui, pending, steps, loads, obs, grid, req, launcher>>

\* a client connects: the handler adds it and extracts the initial geometry
Connect(w) ==
  /\ server.h[w].pc = "absent"
  /\ server' = [server EXCEPT !.clients = @ \cup {w},
                              !.h[w].open = TRUE,
                              !.h[w].pc = IF server.has_polys THEN "greeting" ELSE "recv",
                              !.h[w].message = IF server.has_polys THEN ServerGeometry(server)
                                               ELSE NoGeometry]
  /\ ServerUnchanged

\* the awaited send of send_geometry_data returns or raises (and the
\* exception is swallowed)
Greet(w) ==
  /\ server.h[w].pc = "greeting"
  /\ server' = [server EXCEPT !.h[w].pc = "recv", !.h[w].greeted = server.h[w].open,
                              !.h[w].message = NoGeometry]
  /\ ServerUnchanged

\* the peer closes the connection or the connection is lost
Disconnect(w) ==
  /\ server.h[w].pc \in {"greeting", "recv", "sending"}
  /\ server.h[w].open
  /\ server' = [server EXCEPT !.h[w].open = FALSE]
  /\ ServerUnchanged

\* async for ends or raises ConnectionClosed
EndHandler(w) ==
  /\ server.h[w].pc = "recv"
  /\ ~server.h[w].open
  /\ server' = EndOfHandler(server, w, "closed")
  /\ ServerUnchanged

\* a frame of client w is handled: json.loads, handle_control_message
Receive(w, frame) ==
  /\ server.h[w].pc = "recv"
  /\ server.h[w].open
  /\ \E first \in (IF server.clients = {} THEN {NoSocket} ELSE server.clients) :
       server' =
         IF frame.json = "invalid" THEN EndOfHandler(server, w, "JSONDecodeError")
         ELSE IF frame.json # "object" THEN EndOfHandler(server, w, "AttributeError")
         ELSE IF frame.type # "control" THEN server
         ELSE LET c == ApplyControl(server, frame.control_type, frame.value)
              IN  IF ~c.ok THEN EndOfHandler(server, w, "ValueError")
                  ELSE StartBroadcast(c.sv, w, first)
  /\ ServerUnchanged

\* the awaited send to h[w].cur returns (the client is reached) or raises
\* ConnectionClosed (it is put in disconnected); then the loop asks the set
\* iterator for the next member.  The iterator raises RuntimeError when the
\* set's size is not the size it had when the loop began; otherwise it
\* yields a member not visited yet, and it may stop once every member that
\* was there from the beginning has been visited.  After the loop:
\* self.clients -= disconnected.
SendNext(w) ==
  /\ server.h[w].pc = "sending"
  /\ LET c    == server.h[w].cur
         sent == server.h[c].open
         sv   == [server EXCEPT
                    !.h[w].got = IF sent THEN @ \cup {c} ELSE @,
                    !.h[w].disconnected = IF sent THEN @ ELSE @ \cup {c}]
         rest == sv.clients \ sv.h[w].visited
     IN  IF Cardinality(sv.clients) # sv.h[w].size
         THEN server' = EndOfHandler(sv, w, "RuntimeError")
         ELSE \/ \E nxt \in rest :
                   server' = [sv EXCEPT !.h[w].visited = @ \cup {nxt}, !.h[w].cur = nxt]
              \/ /\ rest \cap sv.h[w].domain = {}
                 /\ server' = [sv EXCEPT !.clients = @ \ sv.h[w].disconnected,
                                         !.h[w] = [NoBroadcast(sv.h[w]) EXCEPT !.pc = "recv"]]
  /\ ServerUnchanged

\* ------------------------------------------------------------- the launcher

\* (src/start_servers.py)  Time is counted in half seconds.
ReadinessTimeout == 20   \* wait_for_vtk_server(timeout=10)

\* the time one pass of the readiness loop takes: the connection attempt
\* (up to 1 s, sock.settimeout(1)) and time.sleep(0.5)
ProbeTimes == {1, 2, 3}

Children == {"vtk_process", "client_process"}

\* a child process: not started ("none"), running or exited; whether
\* terminate() and kill() have been called on it
NoProcess == [state |-> "none", terminate |-> FALSE, kill |-> FALSE]

\* pc: the launcher's position in run; in_finally: whether the finally
\* clause of run has been entered; result: the value run will return;
\* elapsed: time spent in wait_for_vtk_server; accepted: whether (and
\* accepted_at: when) the port accepted a connection; listening: whether
\* the VTK server has bound its port
InitLauncher ==
  [pc |-> "init", in_finally |-> FALSE, result |-> TRUE, elapsed |-> 0,
   accepted |-> FALSE, accepted_at |-> 0, listening |-> FALSE,
   vtk_process |-> NoProcess, client_process |-> NoProcess]

LauncherUnchanged == UNCHANGED <<app, ui, pending, steps, loads, obs, grid, req, server>>

\* control enters the finally clause of run: stop_servers is called
EnterFinally(l) == [l EXCEPT !.in_finally = TRUE, !.pc = "stop_client"]

\* the two existence checks before the try statement
CheckFiles ==
  /\ launcher.pc = "init"
  /\ \E found \in BOOLEAN :
       launcher' = IF found THEN [launcher EXCEPT !.pc = "start_vtk"]
                   ELSE [launcher EXCEPT !.pc = "returned", !.result = FALSE]
  /\ LauncherUnchanged

\* start_vtk_server: subprocess.Popen returns the child or raises
StartVtkServer ==
  /\ launcher.pc = "start_vtk"
  /\ \E started \in BOOLEAN :
       launcher' = IF started
                   THEN [launcher EXCEPT !.pc = "wait", !.vtk_process.state = "running"]
                   ELSE EnterFinally(launcher)
  /\ LauncherUnchanged

\* one pass of the loop of wait_for_vtk_server, or its end at the timeout;
\* a timeout is followed by stop_servers() and return False
WaitForVtkServer ==
  /\ launcher.pc = "wait"
  /\ IF launcher.elapsed < ReadinessTimeout
     THEN IF launcher.listening
          THEN launcher' = [launcher EXCEPT !.pc = "sleep", !.accepted = TRUE,
                                            !.accepted_at = launcher.elapsed]
          ELSE \E d \in ProbeTimes : launcher' = [launcher EXCEPT !.elapsed = @ + d]
     ELSE launcher' = [launcher EXCEPT !.pc = "stop_client", !.result = FALSE]
  /\ LauncherUnchanged

\* time.sleep(2)
Sleep ==
  /\ launcher.pc = "sleep"
  /\ launcher' = [launcher EXCEPT !.pc = "start_client"]
  /\ LauncherUnchanged

\* start_client: subprocess.Popen returns the child or raises
StartClient ==
  /\ launcher.pc = "start_client"
  /\ \E started \in BOOLEAN :
       launcher' = IF started
                   THEN [launcher EXCEPT !.pc = "monitor", !.client_process.state = "running"]
                   ELSE EnterFinally(launcher)
  /\ LauncherUnchanged

\* the polling loop: it is left when poll() reports that a child has exited
Monitor ==
  /\ launcher.pc = "monitor"
  /\ \E child \in Children : launcher[child].state = "exited"
  /\ launcher' = EnterFinally(launcher)
  /\ LauncherUnchanged

\* stop_servers, first half: if self.client_process: terminate()
StopClient ==
  /\ launcher.pc = "stop_client"
  /\ launcher' = IF launcher.client_process.state # "none"
                 THEN [launcher EXCEPT !.pc = "wait_client", !.client_process.terminate = TRUE]
                 ELSE [launcher EXCEPT !.pc = "stop_vtk"]
  /\ LauncherUnchanged

\* wait(timeout=5) on a child: it has exited or exits in time, or
\* TimeoutExpired is raised and kill() is called
WaitChild(l, child, exits) ==
  IF exits THEN [l EXCEPT ![child].state = "exited"] ELSE [l EXCEPT ![child].kill = TRUE]

WaitClient ==
  /\ launcher.pc = "wait_client"
  /\ \E exits \in (IF launcher.client_process.state = "exited" THEN {TRUE} ELSE BOOLEAN) :
       launcher' = [WaitChild(launcher, "client_process", exits) EXCEPT !.pc = "stop_vtk"]
  /\ LauncherUnchanged

\* the end of stop_servers: the call in the try block is followed by return
\* False, which enters the finally clause; the call in the finally clause
\* is followed by the return
StopReturns(l) ==
  IF l.in_finally THEN [l EXCEPT !.pc = "returned"] ELSE EnterFinally(l)

\* stop_servers, second half: if self.vtk_process: terminate()
StopVtk ==
  /\ launcher.pc = "stop_vtk"
  /\ launcher' = IF launcher.vtk_process.state # "none"
                 THEN [launcher EXCEPT !.pc = "wait_vtk", !.vtk_process.terminate = TRUE]
                 ELSE StopReturns(launcher)
  /\ LauncherUnchanged

WaitVtk ==
  /\ launcher.pc = "wait_vtk"
  /\ \E exits \in (IF launcher.vtk_process.state = "exited" THEN {TRUE} ELSE BOOLEAN) :
       launcher' = StopReturns(WaitChild(launcher, "vtk_process", exits))
  /\ LauncherUnchanged

\* Ctrl+C: KeyboardInterrupt is raised in the launcher wherever it is.  In
\* the try block it is caught and the finally clause runs; in the finally
\* clause and before the try statement it leaves run.
KeyboardInterrupt ==
  /\ launcher.pc \notin {"returned", "raised"}
  /\ launcher' = IF launcher.in_finally \/ launcher.pc = "init"
                 THEN [launcher EXCEPT !.pc = "raised"]
                 ELSE EnterFinally(launcher)
  /\ LauncherUnchanged

\* the VTK server binds its port
ServerListens ==
  /\ launcher.vtk_process.state = "running"
  /\ ~launcher.listening
  /\ launcher' = [launcher EXCEPT !.listening = TRUE]
  /\ LauncherUnchanged

\* a child process exits, of its own accord or after a signal
ChildExits(child) ==
  /\ launcher[child].state = "running"
  /\ launcher' = [launcher EXCEPT ![child].state = "exited",
                                  !.listening = IF child = "vtk_process" THEN FALSE ELSE @]
  /\ LauncherUnchanged

Init ==
  /\ app = InitApp
  /\ ui = InitUi
  /\ pending = {}
  /\ steps = 0
  /\ loads = 0
  /\ obs = InitObs
  /\ grid = InitGrid
  /\ req = InitReq
  /\ server = InitServer
  /\ launcher = InitLauncher

\* run update_vtk_geometry with the control values u; the id of the object
\* apply_slicing makes is chosen only when it makes one
RunCallback(trigger, u) ==
  \E exists \in (IF trigger \in CreateButtons THEN BOOLEAN ELSE {TRUE}) :
    \E ids \in (IF trigger \in CreateButtons /\ exists
                THEN LoadIds(app, LargeFile(DatasetType(trigger))) ELSE {<<1, 1>>}) :
      \E r1 \in {UpdateVtkGeometry(app, trigger, u, exists, ids[1], ids[2], 1)} :
        \E nid \in (IF r1.fresh THEN 1..MaxId ELSE {1}) :
          \E r \in {IF nid = 1 THEN r1
                     ELSE UpdateVtkGeometry(app, trigger, u, exists, ids[1], ids[2], nid)} :
            /\ r.valid
            /\ app' = r.s
            /\ obs' = Observe(obs, r, trigger)
            /\ UNCHANGED <<grid, req, server, launcher>>

\* the triggers the callback's initial call can report: none, or the array
\* dropdown, whose value handle_file_upload's own initial call (contents is
\* None, it returns "", [], None) has just written
InitialTriggers == {"none", "array"}

\* the page is (re)loaded: the controls show their initial values and the
\* callback makes its initial call
PageLoad ==
  /\ steps < MaxSteps
  /\ ui' = InitUi
  /\ pending' = {}
  /\ steps' = steps + 1
  /\ loads' = loads
  /\ \E t \in InitialTriggers : RunCallback(t, InitUi)

Controls == {"opacity", "wireframe", "array", "slicing_enabled", "slice_position",
             "slice_normal", "multiple_slices", "num_slices", "slice_spacing"}

ControlValues(c) ==
  CASE c = "opacity"         -> OpacityValues
    [] c = "wireframe"       -> BOOLEAN
    [] c = "array"           -> Range(ui.array_options) \cup {NoArray}
    [] c = "slicing_enabled" -> BOOLEAN
    [] c = "slice_position"  -> PositionValues
    [] c = "slice_normal"    -> NormalValues
    [] c = "multiple_slices" -> BOOLEAN
    [] c = "num_slices"      -> NumSliceValues
    [] c = "slice_spacing"   -> SpacingValues

\* the user changes one control; the callback runs with that control as trigger
SetControl(c, v) ==
  /\ steps < MaxSteps
  /\ obs.op # "init"
  /\ v # ui[c]
  /\ ui' = [ui EXCEPT ![c] = v]
  /\ pending' = pending
  /\ steps' = steps + 1
  /\ loads' = loads
  /\ RunCallback(c, [ui EXCEPT ![c] = v])

\* one of the create buttons: update_slicing_state switches the slicing
\* control on, then update_vtk_geometry runs with the button as trigger
ClickCreate(b) ==
  /\ steps < MaxSteps
  /\ loads < MaxLoads
  /\ obs.op # "init"
  /\ ui' = [ui EXCEPT !.slicing_enabled = TRUE]
  /\ pending' = pending
  /\ steps' = steps + 1
  /\ loads' = loads + 1
  /\ RunCallback(b, [ui EXCEPT !.slicing_enabled = TRUE])

\* handle_file_upload / load_example_files: the load, then the dropdown's
\* options and value are written, which will trigger update_vtk_geometry
FinishLoad(r, op) ==
  /\ app' = r.s
  /\ ui' = [ui EXCEPT !.array_options = IF r.success THEN r.s.available_arrays ELSE <<>>,
                      !.array = IF r.success THEN r.s.current_array ELSE NoArray]
  /\ pending' = pending \cup {"array"}
  /\ steps' = steps + 1
  /\ loads' = loads + 1
  /\ obs' = ObserveLoad(obs, op, r.success)
  /\ UNCHANGED <<grid, req, server, launcher>>

HandleFileUpload(file) ==
  /\ steps < MaxSteps
  /\ loads < MaxLoads
  /\ obs.op # "init"
  /\ \E ids \in LoadIds(app, file) :
       \E r \in {LoadXdmfFile(app, file, ids[1], ids[2])} : FinishLoad(r, "upload")

LoadExampleFiles(b) ==
  /\ steps < MaxSteps
  /\ loads < MaxLoads
  /\ obs.op # "init"
  /\ \E exists \in BOOLEAN :
       \E ids \in (IF exists THEN LoadIds(app, LargeFile(DatasetType(b))) ELSE {<<1, 1>>}) :
         \E r \in {LoadLargeDataset(app, DatasetType(b), exists, ids[1], ids[2])} :
           FinishLoad(r, "load_example")

\* the dropdown update written by a load reaches update_vtk_geometry
DeliverPending(c) ==
  /\ steps < MaxSteps
  /\ c \in pending
  /\ pending' = pending \ {c}
  /\ ui' = ui
  /\ steps' = steps + 1
  /\ loads' = loads
  /\ RunCallback(c, ui)

Next ==
  \/ PageLoad
  \/ \E c \in Controls : \E v \in ControlValues(c) : SetControl(c, v)
  \/ \E b \in CreateButtons : ClickCreate(b)
  \/ \E f \in UploadFiles : HandleFileUpload(f)
  \/ \E b \in LoadButtons : LoadExampleFiles(b)
  \/ \E c \in {"array"} : DeliverPending(c)

Spec == Init /\ [][Next]_vars

\* ------------------------------------------------- longer, narrower sessions
\* Sessions of up to MaxDeepSteps callbacks and MaxDeepLoads loads in which
\* the user uploads the cube, presses the volume button and works the three
\* multi-slice controls.  The counters start below 0 so that the guards
\* steps < MaxSteps and loads < MaxLoads of the actions admit that many.
DeepControls == {"slicing_enabled", "multiple_slices", "slice_spacing"}

DeepInit ==
  /\ app = InitApp
  /\ ui = InitUi
  /\ pending = {}
  /\ steps = MaxSteps - MaxDeepSteps
  /\ loads = MaxLoads - MaxDeepLoads
  /\ obs = InitObs
  /\ grid = InitGrid
  /\ req = InitReq
  /\ server = InitServer
  /\ launcher = InitLauncher

DeepNext ==
  \/ PageLoad
  \/ \E c \in DeepControls : \E v \in ControlValues(c) : SetControl(c, v)
  \/ \E b \in {"create-volume-btn"} : ClickCreate(b)
  \/ \E f \in {"cube"} : HandleFileUpload(f)
  \/ \E c \in {"array"} : DeliverPending(c)

DeepSpec == DeepInit /\ [][DeepNext]_vars

\* ------------------------------------------------------ the generator alone
\* The generator is run on a volume of any size of up to MaxPoints points
\* with these numbers of points per axis.
AxisSizes == {1, 2, 5, 20, 39, 155}

\* the sizes the generator's main program passes
GeneratedSizes == {<<100, 100, 100>>, <<150, 150, 150>>}

GridInit ==
  /\ app = InitApp
  /\ ui = InitUi
  /\ pending = {}
  /\ steps = 0
  /\ loads = 0
  /\ obs = InitObs
  /\ req = InitReq
  /\ server = InitServer
  /\ launcher = InitLauncher
  /\ \E size \in (AxisSizes \X AxisSizes \X AxisSizes) \cup GeneratedSizes :
       /\ size[1] * size[2] * size[3] <= MaxPoints \/ size \in GeneratedSizes
       /\ grid = [InitGrid EXCEPT !.size = size]

\* the cell loop of create_large_volume_dataset
BuildConnectivity ==
  /\ ~grid.built
  /\ grid' = [grid EXCEPT !.built = TRUE, !.stride = Stride(grid.size),
                          !.cells = ConnectivityCount(grid.size)]
  /\ UNCHANGED <<app, ui, pending, steps, loads, obs, req, server, launcher>>

GridNext == BuildConnectivity

GridSpec == GridInit /\ [][GridNext]_vars

\* ------------------------------------------- overlapping geometry requests
\* The session the requests arrive in: the cube has been uploaded, the
\* dropdown holds its first array, nothing is cached.
RaceBase == LoadXdmfFile(InitApp, "cube", 2, 1).s

\* the control values a request carries: the opacity slider and the slicing
\* switch vary, the other controls keep their initial values
RaceInputs ==
  {[InitUi EXCEPT !.array = RaceBase.current_array, !.opacity = o, !.slicing_enabled = e] :
     o \in OpacityValues, e \in BOOLEAN}

RaceInit ==
  /\ app = RaceBase
  /\ ui = InitUi
  /\ pending = {}
  /\ steps = 0
  /\ loads = 0
  /\ obs = InitObs
  /\ grid = InitGrid
  /\ req = InitReq
  /\ server = InitServer
  /\ launcher = InitLauncher

RaceUnchanged == UNCHANGED <<ui, pending, steps, loads, obs, grid, server, launcher>>

\* thread q moves to position pc
Goto(q, pc) == req' = [req EXCEPT ![q].pc = pc]

\* the browser posts a request; the later one is posted when the two
\* overlapping ones have been answered
StartRequest(q, u) ==
  /\ req[q].pc = "idle"
  /\ q = "later" => req["first"].pc = "done" /\ req["second"].pc = "done"
  /\ req' = [req EXCEPT ![q].pc = "state", ![q].u = u]
  /\ app' = app
  /\ RaceUnchanged

\* self.current_opacity = ...; self.wireframe_mode = ...
WriteState(q) ==
  /\ req[q].pc = "state"
  /\ app' = [app EXCEPT !.current_opacity = req[q].u.opacity,
                        !.wireframe_mode = req[q].u.wireframe]
  /\ Goto(q, "slicing")
  /\ RaceUnchanged

\* the slicing fields are copied; the trigger is one of the controls
WriteSlicing(q) ==
  /\ req[q].pc = "slicing"
  /\ app' = CopySlicingParameters(app, "opacity", req[q].u)
  /\ Goto(q, "array")
  /\ RaceUnchanged

\* if array_selection and array_selection != self.current_array: ...
SelectArray(q) ==
  /\ req[q].pc = "array"
  /\ app' = IF req[q].u.array # NoArray /\ req[q].u.array # app.current_array
            THEN ApplyArrayColoring(app, req[q].u.array) ELSE app
  /\ Goto(q, "hash")
  /\ RaceUnchanged

\* current_hash = hash((id(self.vtk_data), ...))
ComputeHash(q) ==
  /\ req[q].pc = "hash"
  /\ req' = [req EXCEPT ![q].pc = "lookup", ![q].current_hash = Fingerprint(app)]
  /\ app' = app
  /\ RaceUnchanged

\* the comparison with the cached fingerprint; a hit returns the cached dict
LookupCache(q) ==
  /\ req[q].pc = "lookup"
  /\ req' = IF app.geometry_cache_hash = req[q].current_hash
            THEN [req EXCEPT ![q].pc = "done", ![q].hit = TRUE,
                             ![q].response = app.cached_geometry_data]
            ELSE [req EXCEPT ![q].pc = "slice"]
  /\ app' = app
  /\ RaceUnchanged

\* self.apply_slicing()
SliceStep(q) ==
  /\ req[q].pc = "slice"
  /\ \E nid \in 1..MaxId :
       \E a \in {ApplySlicing(app, nid)} :
         /\ a.valid
         /\ a.fresh \/ nid = 1
         /\ app' = a.s
  /\ Goto(q, "pack")
  /\ RaceUnchanged

\* the dispatch, the packing loops and the dict with the two echoed flags
PackStep(q) ==
  /\ req[q].pc = "pack"
  /\ \E polydata \in {Polydata(app)} :
       req' = IF NumberOfPoints(polydata) = 0
              THEN [req EXCEPT ![q].pc = "done", ![q].response = EmptyResult]
              ELSE IF ~polydata.poly
              THEN [req EXCEPT ![q].pc = "done", ![q].response = ErrorResult]
              ELSE [req EXCEPT ![q].pc = "store_data",
                               ![q].geometry_data = PackGeometry(app, polydata)]
  /\ app' = app
  /\ RaceUnchanged

\* self._cached_geometry_data = geometry_data
StoreData(q) ==
  /\ req[q].pc = "store_data"
  /\ app' = [app EXCEPT !.cached_geometry_data = req[q].geometry_data]
  /\ Goto(q, "store_hash")
  /\ RaceUnchanged

\* self._geometry_cache_hash = current_hash; return geometry_data
StoreHash(q) ==
  /\ req[q].pc = "store_hash"
  /\ app' = [app EXCEPT !.geometry_cache_hash = req[q].current_hash]
  /\ req' = [req EXCEPT ![q].pc = "done", ![q].response = req[q].geometry_data]
  /\ RaceUnchanged

RaceNext ==
  \/ \E q \in Requests : \E u \in RaceInputs : StartRequest(q, u)
  \/ \E q \in Requests : WriteState(q)
  \/ \E q \in Requests : WriteSlicing(q)
  \/ \E q \in Requests : SelectArray(q)
  \/ \E q \in Requests : ComputeHash(q)
  \/ \E q \in Requests : LookupCache(q)
  \/ \E q \in Requests : SliceStep(q)
  \/ \E q \in Requests : PackStep(q)
  \/ \E q \in Requests : StoreData(q)
  \/ \E q \in Requests : StoreHash(q)

RaceSpec == RaceInit /\ [][RaceNext]_vars

\* ------------------------------------------------- the server's behaviours
ServerInit ==
  /\ app = InitApp
  /\ ui = InitUi
  /\ pending = {}
  /\ steps = 0
  /\ loads = 0
  /\ obs = InitObs
  /\ grid = InitGrid
  /\ req = InitReq
  /\ launcher = InitLauncher
  /\ \E polys \in BOOLEAN : server = [InitServer EXCEPT !.has_polys = polys]

ServerNext ==
  \/ \E w \in Sockets : Connect(w)
  \/ \E w \in Sockets : Greet(w)
  \/ \E w \in Sockets : \E frame \in Frames : Receive(w, frame)
  \/ \E w \in Sockets : SendNext(w)
  \/ \E w \in Sockets : Disconnect(w)
  \/ \E w \in Sockets : EndHandler(w)

ServerSpec == ServerInit /\ [][ServerNext]_vars

\* ----------------------------------------------- the launcher's behaviours
LauncherInit ==
  /\ app = InitApp
  /\ ui = InitUi
  /\ pending = {}
  /\ steps = 0
  /\ loads = 0
  /\ obs = InitObs
  /\ grid = InitGrid
  /\ req = InitReq
  /\ server = InitServer
  /\ launcher = InitLauncher

LauncherNext ==
  \/ CheckFiles
  \/ StartVtkServer
  \/ WaitForVtkServer
  \/ Sleep
  \/ StartClient
  \/ Monitor
  \/ StopClient
  \/ WaitClient
  \/ StopVtk
  \/ WaitVtk
  \/ KeyboardInterrupt
  \/ ServerListens
  \/ \E child \in Children : ChildExits(child)

LauncherSpec == LauncherInit /\ [][LauncherNext]_vars

\* ---------------------------------------------------------------- properties
\* the last callback was a geometry request that returned a packed geometry
Returned == obs.op = "request" /\ obs.result.tag = "geometry"

\* the last callback made an apply_slicing call that cut the dataset
SlicingCall == obs.op = "request" /\ ~obs.hit /\ obs.sliced

\* C1: every packed geometry a request returns has a faces array whose
\* length is a multiple of 3 and whose entries are all below vertex_count.
C1_FacesIndexVertices ==
  Returned =>
    LET g == GeometryData(obs.result)
    IN  /\ Len(g.faces) % 3 = 0
        /\ \A i \in 1..Len(g.faces) : g.faces[i] < g.vertex_count

\* C2: a request that repeats the previous request (same dataset, same
\* parameters, no load in between) is answered from the cache, without a
\* call of apply_slicing or the packer, and returns the same geometry.
C2_CacheIdempotence == obs.repeat => obs.hit /\ obs.same_result

\* C3: a request is answered from the cache only when every input (dataset,
\* active field, slicing flag, position, normal, multi flag, slice count,
\* slice spacing, opacity, wireframe) has the value it had when the cached
\* entry was computed.
C3_FingerprintCoversInputs ==
  obs.op = "request" /\ obs.hit => obs.params = obs.cache_params

\* C4: a packed object that has no polygon is returned with an empty faces
\* array and face_count 0.
C4_NoSynthesizedTriangle ==
  Returned /\ PackedPolys(obs.result) = <<>> =>
    /\ GeometryData(obs.result).faces = <<>>
    /\ GeometryData(obs.result).face_count = 0

\* C5: when slicing is enabled and no plane of the call yields a point, the
\* original dataset becomes the current one and the request returns the
\* geometry it returns with slicing disabled, not an error or an empty result.
C5_EmptySliceFallback ==
  obs.op = "request" /\ obs.fallback =>
    /\ app.vtk_data = app.original_data
    /\ obs.result.tag = "geometry"
    /\ SameResult(obs.result, DisabledResult(app))

\* the key of the single-slice call with the normal and position of key k
SingleKey(k) == SliceKey(k.ax, FALSE, k.pos, 0, 0)

\* C6: the planes of a multi-slice call contain the plane a single-slice
\* call uses for the same dataset, normal and position, and the points of
\* the multi-slice result contain those of the single-slice result.
C6_MultiContainsSingle ==
  SlicingCall /\ obs.multi =>
    /\ SlicePlanes(obs.source, SingleKey(obs.key))[1] \in {obs.planes[i].P : i \in 1..Len(obs.planes)}
    /\ Range(Slice(obs.source, SingleKey(obs.key)).geom.pts)
         \subseteq Range(Slice(obs.source, obs.key).geom.pts)

\* bounds-centre + position / 100 * (max - min), times 200
PercentPlane(name, ax, pos) ==
  100 * (BoundsLo(name, ax) + BoundsHi(name, ax)) + 2 * pos * (BoundsHi(name, ax) - BoundsLo(name, ax))

\* the plane of a call that sits at the slice position itself: the only
\* plane in single-slice mode, the plane with offset 0 in multi-slice mode
PositionPlane == obs.planes[IF obs.multi THEN (obs.key.N \div 2) + 1 ELSE 1].P

\* C7: in both slicing modes the plane at the slice position has the
\* coordinate bounds-centre + position / 100 * extent of the original dataset
\* and lies within the dataset's bounds.
C7_PositionIsPercentage ==
  SlicingCall =>
    /\ PositionPlane = PercentPlane(obs.source, obs.key.ax, obs.key.pos)
    /\ 200 * BoundsLo(obs.source, obs.key.ax) <= PositionPlane
    /\ PositionPlane <= 200 * BoundsHi(obs.source, obs.key.ax)

\* C8: in every packed geometry a request returns, vertices and colors both
\* have 3 * vertex_count entries and face_count is len(faces) / 3.
C8_ArrayLengths ==
  Returned =>
    LET g == GeometryData(obs.result)
    IN  /\ Len(g.vertices) = 3 * g.vertex_count
        /\ Len(g.colors) = 3 * g.vertex_count
        /\ 3 * g.face_count = Len(g.faces)

\* a sliced dataset of two or more points was packed with the default colour
C8_Witness ==
  /\ Returned /\ ~obs.hit
  /\ obs.result.polydata.scalars = "none"
  /\ GeometryData(obs.result).vertex_count >= 2
  /\ obs.result.polydata.slice # NoSlice

\* the triangles (v0,v1,v2), (v0,v2,v3), ..., (v0,v(k-1),vk) of one polygon
FanTriangles(ids) ==
  Flatten([k \in 1..(Len(ids) - 2) |-> <<ids[1], ids[k + 1], ids[k + 2]>>])

\* C9: faces is the concatenation, in cell order, of the fan triangles of
\* the polygons, so face_count is the sum of n - 2 over the polygons.
C9_FanTriangulation ==
  Returned =>
    LET polys == PackedPolys(obs.result)
        g     == GeometryData(obs.result)
    IN  /\ g.faces = Flatten([k \in 1..Len(polys) |-> FanTriangles(polys[k])])
        /\ g.face_count = SeqSum([k \in 1..Len(polys) |-> Len(polys[k]) - 2])

\* C10: a geometry request leaves original_data as the last load stored it,
\* cuts nothing but original_data, and with slicing disabled packs
\* original_data itself.
C10_SourcePreserved ==
  obs.op = "request" =>
    /\ obs.original_kept
    /\ obs.cut_input \subseteq {app.original_data.id}
    /\ SlicingCall => obs.cut_input = {app.original_data.id}
    /\ ~obs.hit /\ ~obs.sliced => obs.packed = app.original_data.id /\ app.vtk_data = app.original_data

\* slicing was switched off after a slice had replaced the current dataset,
\* and the original dataset was packed again
C10_Witness ==
  /\ obs.op = "request" /\ ~obs.sliced /\ obs.restored
  /\ obs.packed = app.original_data.id

\* The session of a new process that has loaded dataset p[1] (the default
\* sphere when it is "sphere") and now receives, as its first request, the
\* request with the parameters p (a value of FullParams).
FirstRequestSession(p) ==
  Let(IF p[1] = "sphere" THEN InitApp ELSE LoadXdmfFile(InitApp, p[1], 2, 3).s, LAMBDA base :
    Let(IF p[2] # NoArray /\ p[2] # base.current_array
        THEN ApplyArrayColoring(base, p[2]) ELSE base, LAMBDA c :
      [c EXCEPT !.slicing_enabled = p[3], !.slice_position = p[4], !.slice_normal = p[5],
                !.multiple_slices = p[6], !.num_slices = p[7], !.slice_spacing = p[8],
                !.current_opacity = p[9], !.wireframe_mode = p[10]]))

FirstRequestResult(p) == ExtractGeometryData(FirstRequestSession(p), 1).result

\* C11: a request returns what a session that has just loaded the same
\* dataset returns for the same parameters (active field, slicing flag,
\* position, normal, multi flag, slice count, spacing, opacity, wireframe),
\* whatever requests the session processed before.
C11_ExtractionIsPure ==
  obs.op = "request" => SameResult(obs.result, FirstRequestResult(obs.params))

\* C12: the session has one cache slot.  A request that completes a
\* recomputation leaves its own fingerprint and result in the slot, a request
\* is answered from the cache only with the pair the slot holds for its own
\* fingerprint, and the third request of a sequence A, B, A with
\* fingerprint(A) # fingerprint(B), B having completed a recomputation, is
\* not answered from the cache.
C12_SingleSlot ==
  obs.op = "request" =>
    /\ obs.stored => /\ app.geometry_cache_hash = obs.fingerprint
                     /\ app.cached_geometry_data = obs.result
    /\ obs.hit => /\ app.geometry_cache_hash = obs.fingerprint
                  /\ app.cached_geometry_data = obs.result
    /\ obs.aba => ~obs.hit

\* the third request of such a sequence A, B, A was recomputed and returned
\* a geometry
C12_Witness ==
  obs.op = "request" /\ obs.aba /\ obs.stored /\ obs.prev_fingerprint # <<>>

\* the planes a multi-slice call with key k is to cut with
ExpectedPlanes(k) ==
  [i \in 1..k.N |-> 200 * k.pos + 20 * ((i - 1) - (k.N \div 2)) * k.sp]

\* the points of the cuts of dataset name by the planes, one cut after the
\* other (a cut without points adds nothing)
CutPoints(name, ax, planes) ==
  Flatten([i \in 1..Len(planes) |-> Cut(name, ax, planes[i]).pts])

\* CutPoints for the expected planes of every multi-slice key, computed once
ExpectedCutTable ==
  [name \in DatasetNames |-> [ax \in 1..3 |-> [pos \in PositionValues |->
     [N \in NumSliceValues \cup {5} |-> [sp \in SpacingValues \cup {2} |->
        CutPoints(name, ax, ExpectedPlanes([pos |-> pos, N |-> N, sp |-> sp]))]]]]]
ExpectedCut(name, k) == ExpectedCutTable[name][k.ax][k.pos][k.N][k.sp]

\* C13: a multi-slice call with slice count N cuts the original dataset N
\* times, with planes of the call's normal at slice_position +
\* (i - N \div 2) * slice_spacing for i = 0..N-1, evenly spaced with the slice
\* position among them; unless every cut is empty, the dataset that is
\* packed is the concatenation of the cuts that have points.
C13_MultiSlicePlanes ==
  SlicingCall /\ obs.multi =>
    LET N == obs.key.N
    IN  /\ Len(obs.planes) = N
        /\ obs.cut_input = {app.original_data.id}
        /\ \A i \in 1..N :
             /\ obs.planes[i].ax = obs.key.ax
             /\ obs.planes[i].P = ExpectedPlanes(obs.key)[i]
        /\ \A i \in 1..(N - 1) : obs.planes[i + 1].P - obs.planes[i].P = 20 * obs.key.sp
        /\ \E i \in 1..N : obs.planes[i].P = 200 * obs.key.pos
        /\ ~obs.fallback =>
             /\ obs.result.tag = "geometry"
             /\ PolyGeom(obs.result.polydata).pts = ExpectedCut(obs.source, obs.key)
             /\ GeometryData(obs.result).vertex_count =
                  SeqSum([i \in 1..N |-> obs.planes[i].npts])

\* a multi-slice call some of whose cuts are empty and some are not
C13_Witness ==
  /\ SlicingCall /\ obs.multi /\ ~obs.fallback
  /\ \E i \in 1..Len(obs.planes) : obs.planes[i].npts = 0
  /\ \E i \in 1..Len(obs.planes) : obs.planes[i].npts > 0

\* C14: a packed geometry returned by a request, computed or taken from the
\* cache, carries the opacity and the wireframe flag the request was made
\* with (the values of the two controls the callback received).
C14_EchoedFlags ==
  Returned =>
    /\ GeometryData(obs.result).opacity = ui.opacity
    /\ GeometryData(obs.result).wireframe = ui.wireframe

\* a request with opacity and wireframe changed from their initial values
\* was answered from the cache
C14_Witness ==
  Returned /\ obs.hit /\ ui.opacity # InitUi.opacity /\ ui.wireframe # InitUi.wireframe

\* what a load replaces: the dataset, its path and arrays, the slicing flags
LoadedState(s) ==
  <<s.original_data, s.uploaded_file_path, s.available_arrays,
    s.slicing_enabled, s.slice_position, s.slice_normal>>

\* C15: a load that fails (unreadable file, no points, files not on disk)
\* returns False and leaves the session as it was: after a failed upload or
\* example load every field, the cache slot included, is unchanged, and a
\* request whose create-button load fails still works on the dataset, path,
\* arrays and slicing flags of before.
C15_FailedLoadKeepsState ==
  [][/\ (obs'.op \in {"upload", "load_example"} /\ ~obs'.loaded) => app' = app
     /\ (obs'.op = "request" /\ obs'.trigger \in CreateButtons /\ ~obs'.loaded) =>
          /\ LoadedState(app') = LoadedState(app)
          /\ obs'.source = app.original_data.name]_vars

\* an upload failed in a session that has slicing enabled and a filled cache
C15_Witness ==
  /\ obs.op = "upload" /\ ~obs.loaded
  /\ app.slicing_enabled /\ app.geometry_cache_hash # <<>>

\* the selection names a point or cell array the dataset does not have
AbsentField(array_selection, name) ==
  /\ array_selection \notin {NoArray, ElevationArray}
  /\ array_selection \notin Range(AvailableArrays(name))

\* C16: a request whose active field names an array that the current dataset
\* does not have returns a geometry (no error), coloured with the default
\* colour or the elevation gradient and not with another scalar array.
C16_AbsentFieldFallsBack ==
  obs.op = "request" /\ AbsentField(obs.params[2], obs.source) =>
    /\ obs.result.tag = "geometry"
    /\ obs.result.polydata.scalars \in {"none", "Elevation"}

\* C17: when a request maps a scalar array to colours, the range of the
\* lookup table it reads the colours from is that array's own range, from
\* its smallest to its largest value.
C17_LookupRangeIsArrayRange ==
  Returned /\ ~obs.hit /\ obs.result.polydata.scalars # "none"
    => app.lookup_table.table_range = ScalarRange(obs.source, obs.result.polydata.scalars)

\* the three colour components written for point i
PointColor(colors, i) == <<colors[3 * i - 2], colors[3 * i - 1], colors[3 * i]>>

\* the colors packed for object pd: the default colour at every point when
\* pd has no active scalars, the colour looked up for the point otherwise
FallbackOrMapped(pd) ==
  Let(Packed(pd), LAMBDA a :
    /\ Len(a.colors) = 3 * a.vertex_count
    /\ \A i \in 1..a.vertex_count :
          IF pd.scalars = "none"
          THEN PointColor(a.colors, i) = DefaultColor
          ELSE PointColor(a.colors, i) =
                 << <<pd.scalars, i, 1>>, <<pd.scalars, i, 2>>, <<pd.scalars, i, 3>> >>)

\* FallbackOrMapped for every object the packer can be handed, computed once
ColourTable ==
  [form \in {"surface", "self"} |-> [name \in DatasetNames |-> [scalars \in ScalarNames |->
     [ax \in 0..3 |-> [pos \in PositionValues |->
        [N \in NumSliceValues \cup {0, 5} |-> [sp \in SpacingValues \cup {0, 2} |->
           IF (N = 0) = (sp = 0) /\ (ax = 0 => N = 0 /\ pos = 0) /\ (form = "surface" => ax = 0)
           THEN FallbackOrMapped([form |-> form, name |-> name, scalars |-> scalars,
                                  slice |-> [ax |-> ax, multi |-> N # 0, pos |-> pos, N |-> N, sp |-> sp]])
           ELSE TRUE]]]]]]]
ColoursFollowScalars(pd) ==
  ColourTable[pd.form][pd.name][pd.scalars][pd.slice.ax][pd.slice.pos][pd.slice.N][pd.slice.sp]

C19_DispatchHandsPolydata ==
  obs.op = "request" =>
    /\ obs.result.tag # "error"
    /\ ~obs.hit /\ ~obs.sliced /\ Kind(obs.source) = "StructuredGrid" =>
          /\ obs.result.tag = "geometry"
          /\ obs.result.polydata.form = "surface"

\* the most blocks per axis a cubic volume gets: n points with n >= 20 give
\* stride n // 20 and fewer than 2 * 20 - 1 blocks
CubicBlocks == 2 * StrideDivisor - 2

\* C20: the number of hexahedra built for a volume is at most the number a
\* cubic volume can get, whatever the numbers of points per axis.
C20_CellCountBounded ==
  grid.built => grid.cells <= CubicBlocks * CubicBlocks * CubicBlocks

\* the point <<x, y, z>> of the volume that index idx numbers
GridPoint(size, idx) ==
  <<idx % size[1], (idx \div size[1]) % size[2], idx \div (size[1] * size[2])>>

\* the 8 corners of the axis-aligned block of edge length s at <<i, j, k>>
BlockCorners(i, j, k, s) ==
  {<<i + a * s, j + b * s, k + c * s>> : a \in {0, 1}, b \in {0, 1}, c \in {0, 1}}

\* C21: for the volume of 100 x 100 x 100 points the stride is 5 and exactly
\* 6859 hexahedra are built; each has 8 pairwise distinct point indices below
\* nx * ny * nz, which number the corners of one axis-aligned block of edge
\* length 5, and no two hexahedra are the same block.
C21_HundredCubed ==
  grid.built /\ grid.size = <<100, 100, 100>> =>
    /\ grid.stride = 5
    /\ grid.cells = 6859
    /\ LET rows == {Hexahedron(grid.size, grid.stride, c[3], c[2], c[1]) : c \in Blocks(grid.size)}
       IN  /\ Cardinality(rows) = grid.cells
           /\ \A row \in rows :
                 /\ Cardinality(Range(row)) = 8
                 /\ \A n \in 1..8 : row[n] >= 0 /\ row[n] < 100 * 100 * 100
                 /\ LET p == GridPoint(grid.size, row[1])
                    IN  {GridPoint(grid.size, row[n]) : n \in 1..8} =
                          BlockCorners(p[1], p[2], p[3], grid.stride)

\* the cells of the 100 x 100 x 100 volume have been built
C21_Witness ==
  grid.built /\ grid.size = <<100, 100, 100>> /\ grid.cells > 0

\* the last callback cut the cube with a single slice of normal x at position 0
CubeMidSlice ==
  /\ SlicingCall /\ obs.source = "cube" /\ ~obs.multi
  /\ obs.key.ax = 1 /\ obs.key.pos = 0

\* cell has a point strictly on each side of the plane "coordinate ax = P / 200"
Straddles(name, ax, P, cell) ==
  /\ \E n \in 1..Len(cell.ids) : 200 * Coords(name)[cell.ids[n]][ax] > P
  /\ \E n \in 1..Len(cell.ids) : 200 * Coords(name)[cell.ids[n]][ax] < P

\* C22: the cube of create_simple_cube_xdmf has 8 points, 6 tetrahedra and a
\* point field with range 20..90; a request that slices it with normal x at
\* position 0 cuts at x = 0.5, some tetrahedron has points strictly on both
\* sides of that plane, the cut has points (no fallback), and the returned
\* geometry has vertex_count > 0 and face_count > 0.
C22_CubeMidSliceNonEmpty ==
  CubeMidSlice =>
    /\ Len(Coords("cube")) = 8 /\ Len(Cells("cube")) = 6
    /\ \A n \in 1..6 : Cells("cube")[n].t = "tet"
    /\ ScalarRange("cube", "Temperature") = <<20, 90>>
    /\ Len(obs.planes) = 1
    /\ obs.planes[1].ax = 1 /\ obs.planes[1].P = 100
    /\ \E n \in 1..6 : Straddles("cube", 1, obs.planes[1].P, Cells("cube")[n])
    /\ obs.planes[1].npts > 0
    /\ ~obs.fallback
    /\ obs.result.tag = "geometry"
    /\ GeometryData(obs.result).vertex_count > 0
    /\ GeometryData(obs.result).face_count > 0

\* such a request was made and its slice was packed
C22_Witness ==
  CubeMidSlice /\ obs.result.tag = "geometry" /\ obs.result.polydata.slice # NoSlice

\* the name of the array current_array stands for: an entry "Point: X" or
\* "Cell: X" names X, "Elevation" names itself, None names no array
NamedArray(array) == IF array = NoArray THEN "none" ELSE array[2]

\* C23: after every request that returns a geometry, the scalar array whose
\* values colour that geometry is the array current_array names.
C23_ColoursFollowCurrentArray ==
  Returned => obs.result.polydata.scalars = NamedArray(app.current_array)

\* C26: in every reachable session state current_array is None, "Elevation"
\* or an entry of available_arrays, the arrays of the loaded dataset; a
\* request that carries the dropdown value of the previous dataset does not
\* change that.
C26_CurrentArrayAvailable ==
  app.current_array \in {NoArray, ElevationArray} \cup Range(app.available_arrays)

\* a large example dataset has just been loaded by this step
LargeLoaded ==
  /\ steps' # steps
  /\ obs'.loaded
  /\ \/ obs'.op = "load_example"
     \/ obs'.op = "request" /\ obs'.trigger \in CreateButtons

\* this step is the geometry callback that the dropdown update of a
\* successful load_example_files triggers
CallbackOfLoad ==
  /\ obs.op = "load_example" /\ obs.loaded /\ "array" \in pending
  /\ obs'.op = "request" /\ obs'.trigger = "array" /\ ui' = ui

\* the geometry a request returned is a slice of the dataset
SliceShown(o) == o.result.tag = "geometry" /\ o.result.polydata.slice # NoSlice

\* C25: a successful load of a large example dataset, through a create
\* button or a load button, leaves slicing enabled with X normal and
\* position 0, and slicing is still enabled after the geometry callback
\* that the load triggers, whose geometry is a slice.
C25_LargeLoadKeepsSlicing ==
  [][/\ LargeLoaded =>
          /\ app'.slicing_enabled
          /\ app'.slice_normal = <<1, 0, 0>>
          /\ app'.slice_position = 0
          /\ obs'.op = "request" => SliceShown(obs')
     /\ CallbackOfLoad => app'.slicing_enabled /\ SliceShown(obs')]_vars

\* the value update_vtk_geometry returns for control values u when it runs
\* alone in the session the requests arrive in
AloneResponse(u) ==
  ExtractGeometryData(
    CopySlicingParameters([RaceBase EXCEPT !.current_opacity = u.opacity,
                                           !.wireframe_mode = u.wireframe], "opacity", u),
    1).result

\* request q ran both assignments that fill the cache slot
FilledSlot(q) == req[q].pc = "done" /\ ~req[q].hit /\ req[q].response.tag = "geometry"

\* C24: when two requests overlap, the cache slot afterwards holds the
\* fingerprint and the geometry of one and the same request, every response
\* is the geometry of the responding request's own parameters, and a later
\* request served from the slot gets the geometry of its own parameters.
C24_OverlapLastWriteWins ==
  /\ /\ req["first"].pc = "done" /\ req["second"].pc = "done" /\ req["later"].pc = "idle"
     /\ app.geometry_cache_hash # <<>>
     => \E q \in {"first", "second"} :
          /\ FilledSlot(q)
          /\ app.geometry_cache_hash = req[q].current_hash
          /\ app.cached_geometry_data = req[q].geometry_data
  /\ \A q \in Requests :
       req[q].pc = "done" => SameResult(req[q].response, AloneResponse(req[q].u))

\* the clients the broadcast of handler w has reached when its last
\* awaited send returns
Reached(w) ==
  server.h[w].got \cup
    (IF server.h[w].cur \in Sockets /\ server.h[server.h[w].cur].open
     THEN {server.h[w].cur} ELSE {})

\* C27: every control message the server receives is followed by a
\* broadcast of freshly extracted geometry that reaches all connected
\* clients, and after an opacity or wireframe control the geometry carries
\* the value of the message; a message of another type changes nothing; a
\* client has been sent the geometry before its first message is handled.
C27_ControlThenBroadcast ==
  [][\A w \in Sockets :
       /\ \A frame \in Frames :
            Receive(w, frame) =>
              /\ server.h[w].greeted
              /\ frame.json = "object" /\ frame.type # "control" => server' = server
              /\ frame.json = "object" /\ frame.type = "control" =>
                   /\ server'.h[w].pc = "sending"
                   /\ server'.h[w].message = ServerGeometry(server')
                   /\ frame.control_type = "opacity" =>
                        /\ ToFloat(frame.value).ok
                        /\ server'.h[w].message.opacity = ToFloat(frame.value).x
                   /\ frame.control_type = "wireframe" =>
                        server'.h[w].message.wireframe = ToBool(frame.value)
       /\ server.h[w].pc = "sending" /\ server'.h[w].pc # "sending" =>
            /\ server'.h[w].pc = "recv"
            /\ \A c \in server.h[w].domain : server'.h[c].open => c \in Reached(w)]_vars

C29_ClientSetMembership ==
  [][\A w \in Sockets :
       /\ server.h[w].pc = "absent" /\ server'.h[w].pc # "absent" => w \in server'.clients
       /\ server'.h[w].pc = "ended" => w \notin server'.clients
       /\ \A v \in Sockets :
            server'.h[v].cur = w /\ server.h[v].cur # w =>
              server.h[w].pc # "ended" /\ server'.h[w].pc # "ended"]_vars

\* a handler was ended by an exception raised while one of its messages was
\* handled, and a broadcast that began afterwards is in progress
C29_Witness ==
  \E w \in Sockets : \E v \in Sockets \ {w} :
    /\ server.h[w].pc = "ended" /\ server.h[w].ended_by \in {"JSONDecodeError", "ValueError"}
    /\ server.h[v].pc = "sending" /\ w \notin server.h[v].domain
    /\ server.h[v].cur = v

\* the child was started and has been stopped the way stop_servers does it
Stopped(child) ==
  launcher[child].state # "none" =>
    /\ launcher[child].terminate
    /\ launcher[child].state = "exited" \/ launcher[child].kill

\* C30: the WebGL client is started only after the VTK server's port has
\* accepted a connection within the readiness timeout, and whenever run has
\* been left after the VTK server process was started, every child that was
\* started has been sent terminate, and kill unless it exited.
C30_LauncherProtocol ==
  /\ launcher.client_process.state # "none" =>
       launcher.accepted /\ launcher.accepted_at < ReadinessTimeout
  /\ launcher.pc \in {"returned", "raised"} /\ launcher.vtk_process.state # "none" =>
       \A child \in Children : Stopped(child)

====
